---- MODULE Spec2Model ----
(***************************************************************************)
(* Environmental suitability scoring of the mushroom foraging application. *)
(*                                                                         *)
(* The module models the client scorer ProbabilityCalculator               *)
(* (client/src/lib/probability-calculator.ts), the server's                *)
(* probability-analysis endpoint (server/routes.ts), the in-memory         *)
(* species store with the Swiss Fungi sync service, and the conversion     *)
(* of a fetched species (server/swiss-fungi-fetcher.ts).                   *)
(*                                                                         *)
(* Representation of the TypeScript values:                                *)
(*  - a nullable value is a sequence of length at most one: <<>> is        *)
(*    null/undefined, <<v>> is the value v;                                *)
(*  - a string is a sequence of letters; a letter is a record              *)
(*    [w |-> <lower-case spelling>, cap |-> <written in capitals>], so     *)
(*    toLowerCase, includes, split and trim are computed on the text;      *)
(*  - numbers are integers (every threshold of the code is an integer).    *)
(***************************************************************************)
EXTENDS Integers, Sequences, FiniteSets, TLC

VARIABLES
    currentMonth,   \* new Date().getMonth(): 0 (January) .. 11 (December)
    species,        \* the MushroomSpecies passed to the species scorers
    location,       \* the ForagingLocation passed to the scorers
    weather,        \* the WeatherData snapshot, or null
    allSpecies,     \* the species catalog passed to the location ranking
    clientResult,   \* last result of calculateSpeciesProbability, or null
    seasonLabel,    \* the season label handed to the seasonal model, with its atoms
    seasonResult,   \* last scores of the seasonal model, or null
    firstRank,      \* record of the first calculateLocationProbability call
    lastRank,       \* record of the latest calculateLocationProbability call
    analysis,       \* last response of the probability-analysis endpoint
    ticks,          \* number of month changes so far
    compatible,     \* last result of calculateServerCompatibleProbability, or null
    foraging,       \* last result of the server's calculateForagingProbability, or null
    phenology,      \* the observed months (1..12) of an imported species
    store,          \* MemStorage.mushroomSpecies: the number of records of each scientific name
    syncInProgress, \* SwissFungiSyncService.syncInProgress
    lastSyncDate,   \* SwissFungiSyncService.lastSyncDate, or undefined
    clock,          \* the number of syncs completed so far (the value of new Date())
    calls           \* the requests to the sync service, each with its position

\* The variables of the scorers and of the sync service.
scoringVars == <<currentMonth, species, location, weather, allSpecies, clientResult,
                 seasonLabel, seasonResult, firstRank, lastRank, analysis, ticks,
                 compatible, foraging, phenology>>

syncVars == <<store, syncInProgress, lastSyncDate, clock, calls>>

vars == <<scoringVars, syncVars>>

-----------------------------------------------------------------------------
(* Nullable values and JavaScript truthiness                               *)

None == <<>>

Some(v) == <<v>>

IsNull(o) == Len(o) = 0

Val(o) == o[1]

\* JavaScript truthiness of a nullable number: present and not 0.
TruthyNum(o) == Len(o) = 1 /\ o[1] # 0

\* JavaScript truthiness of a nullable string: present and not empty.
TruthyStr(o) == Len(o) = 1 /\ Len(o[1]) > 0

\* JavaScript truthiness of a nullable array: present (an empty array is truthy).
TruthyArr(o) == Len(o) = 1

\* weather?.field : undefined when weather is null, else the field.
OptField(w, f) == IF IsNull(w) THEN None ELSE w[1][f]

\* null compared with a number is compared as 0.
ToNumber(o) == IF IsNull(o) THEN 0 ELSE Val(o)

Abs(x) == IF x < 0 THEN -x ELSE x

Min2(a, b) == IF a <= b THEN a ELSE b

Max2(a, b) == IF a >= b THEN a ELSE b

-----------------------------------------------------------------------------
(* Strings                                                                 *)

\* A word written with a leading capital, and one written in lower case.
Cap(x) == <<[w |-> x, cap |-> TRUE]>>

Low(x) == <<[w |-> x, cap |-> FALSE]>>

Comma == [w |-> ",", cap |-> FALSE]

Space == [w |-> " ", cap |-> FALSE]

\* String.prototype.toLowerCase
toLowerCase(s) == [i \in 1..Len(s) |-> [w |-> s[i].w, cap |-> FALSE]]

\* String.prototype.includes: t occurs in s as a contiguous substring.
includes(s, t) == \E i \in 0..(Len(s) - Len(t)) : SubSeq(s, i + 1, i + Len(t)) = t

\* String.prototype.trim
RECURSIVE trim(_)
trim(s) ==
    IF Len(s) = 0 THEN s
    ELSE IF s[1] = Space THEN trim(Tail(s))
    ELSE IF s[Len(s)] = Space THEN trim(SubSeq(s, 1, Len(s) - 1))
    ELSE s

\* String.prototype.split(','): the pieces between the commas, in order.
RECURSIVE splitFrom(_, _)
splitFrom(s, piece) ==
    IF Len(s) = 0 THEN <<piece>>
    ELSE IF s[1] = Comma THEN <<piece>> \o splitFrom(Tail(s), <<>>)
    ELSE splitFrom(Tail(s), Append(piece, s[1]))

split(s) == splitFrom(s, <<>>)

AllYear == Cap("all") \o <<Space>> \o Cap("year")

Spring == Cap("spring")

Summer == Cap("summer")

Fall == Cap("fall")

Winter == Cap("winter")

-----------------------------------------------------------------------------
(* Seasonal timing model of the client                                     *)

\* The single-season score with a Winter range that does not wrap the year end.
getSingleSeasonScore_noWrap(season, month) ==
    LET isInSeason ==
            CASE season = Spring -> month >= 2 /\ month <= 4
              [] season = Summer -> month >= 5 /\ month <= 7
              [] season = Fall   -> month >= 8 /\ month <= 10
              [] season = Winter -> month >= 11 /\ month <= 1
              [] OTHER -> FALSE
        isAdjacentSeason ==
            CASE season = Spring -> month = 1 \/ month = 5
              [] season = Summer -> month = 4 \/ month = 8
              [] season = Fall   -> month = 7 \/ month = 11
              [] season = Winter -> month = 2 \/ month = 10
              [] OTHER -> FALSE
    IN  IF isInSeason THEN 10 ELSE IF isAdjacentSeason THEN 6 ELSE 2

\* The single-season score with the season names compared in any letter case.
getSingleSeasonScore_anyCase(season, month) ==
    LET name == toLowerCase(season)
        isInSeason ==
            CASE name = toLowerCase(Spring) -> month >= 2 /\ month <= 4
              [] name = toLowerCase(Summer) -> month >= 5 /\ month <= 7
              [] name = toLowerCase(Fall)   -> month >= 8 /\ month <= 10
              [] name = toLowerCase(Winter) -> month = 11 \/ month <= 1
              [] OTHER -> FALSE
        isAdjacentSeason ==
            CASE name = toLowerCase(Spring) -> month = 1 \/ month = 5
              [] name = toLowerCase(Summer) -> month = 4 \/ month = 8
              [] name = toLowerCase(Fall)   -> month = 7 \/ month = 11
              [] name = toLowerCase(Winter) -> month = 2 \/ month = 10
              [] OTHER -> FALSE
    IN  IF isInSeason THEN 10 ELSE IF isAdjacentSeason THEN 6 ELSE 2

\* getSingleSeasonScore (lines 295-321); month is getMonth(): 0 is January.
getSingleSeasonScore(season, month) ==
    LET isInSeason ==
            CASE season = Spring -> month >= 2 /\ month <= 4
              [] season = Summer -> month >= 5 /\ month <= 7
              [] season = Fall   -> month >= 8 /\ month <= 10
              [] season = Winter -> month = 11 \/ month <= 1
              [] OTHER -> FALSE
        isAdjacentSeason ==
            CASE season = Spring -> month = 1 \/ month = 5
              [] season = Summer -> month = 4 \/ month = 8
              [] season = Fall   -> month = 7 \/ month = 11
              [] season = Winter -> month = 2 \/ month = 10
              [] OTHER -> FALSE
    IN  IF isInSeason THEN 10 ELSE IF isAdjacentSeason THEN 6 ELSE 2

\* The loop keeping the score of the last atom instead of the maximum.
RECURSIVE seasonLoop_lastAtom(_, _, _)
seasonLoop_lastAtom(seasons, month, maxScore) ==
    IF Len(seasons) = 0 THEN maxScore
    ELSE seasonLoop_lastAtom(Tail(seasons), month,
                             getSingleSeasonScore(Head(seasons), month))

\* The for loop of getSeasonalScore: the running maximum over the atoms.
RECURSIVE seasonLoop(_, _, _)
seasonLoop(seasons, month, maxScore) ==
    IF Len(seasons) = 0 THEN maxScore
    ELSE seasonLoop(Tail(seasons), month,
                    Max2(maxScore, getSingleSeasonScore(Head(seasons), month)))

\* The seasonal score without the test of line 278 for "All Year".
getSeasonalScore_noSentinel(mushroomSeason, month) ==
    LET seasons == [i \in 1..Len(split(mushroomSeason)) |->
                       trim(split(mushroomSeason)[i])]
        maxScore == seasonLoop(seasons, month, 0)
    IN  IF maxScore # 0 THEN maxScore
        ELSE getSingleSeasonScore(mushroomSeason, month)

\* getSeasonalScore (lines 275-290), with the month it reads from the clock.
getSeasonalScore(mushroomSeason, month) ==
    IF mushroomSeason = AllYear THEN 10
    ELSE LET seasons == [i \in 1..Len(split(mushroomSeason)) |->
                            trim(split(mushroomSeason)[i])]
             maxScore == seasonLoop(seasons, month, 0)
         IN  IF maxScore # 0 THEN maxScore
             ELSE getSingleSeasonScore(mushroomSeason, month)

-----------------------------------------------------------------------------
(* Seasonal timing model of the server                                     *)

routes_getSingleSeasonScore(season, month) ==
    LET isInSeason ==
            CASE season = Spring -> month >= 2 /\ month <= 4
              [] season = Summer -> month >= 5 /\ month <= 7
              [] season = Fall   -> month >= 8 /\ month <= 10
              [] season = Winter -> month = 11 \/ month <= 1
              [] OTHER -> FALSE
        isAdjacentSeason ==
            CASE season = Spring -> month = 1 \/ month = 5
              [] season = Summer -> month = 4 \/ month = 8
              [] season = Fall   -> month = 7 \/ month = 11
              [] season = Winter -> month = 2 \/ month = 10
              [] OTHER -> FALSE
    IN  IF isInSeason THEN 15 ELSE IF isAdjacentSeason THEN 8 ELSE 3

RECURSIVE routes_seasonLoop(_, _, _)
routes_seasonLoop(seasons, month, maxScore) ==
    IF Len(seasons) = 0 THEN maxScore
    ELSE routes_seasonLoop(Tail(seasons), month,
             Max2(maxScore, routes_getSingleSeasonScore(Head(seasons), month)))

routes_getSeasonScore(mushroomSeason, month) ==
    IF mushroomSeason = AllYear THEN 15
    ELSE LET seasons == [i \in 1..Len(split(mushroomSeason)) |->
                            trim(split(mushroomSeason)[i])]
             maxScore == routes_seasonLoop(seasons, month, 0)
         IN  IF maxScore # 0 THEN maxScore
             ELSE routes_getSingleSeasonScore(mushroomSeason, month)

-----------------------------------------------------------------------------
(* Factor scorers of the client: calculateSpeciesProbability, lines 36-200 *)

\* Temperature factor (lines 36-53).
temperatureFactor(sp, w) ==
    LET t == OptField(w, "temperature")
    IN  IF TruthyNum(t) /\ TruthyNum(sp.optimalTemp)
        THEN LET tempDiff == Abs(Val(t) - Val(sp.optimalTemp))
             IN  IF tempDiff <= 2 THEN 25
                 ELSE IF tempDiff <= 5 THEN 20
                 ELSE IF tempDiff <= 8 THEN 15
                 ELSE IF tempDiff <= 12 THEN 10
                 ELSE 5
        ELSE IF TruthyNum(t)
        THEN IF Val(t) >= 15 /\ Val(t) <= 22 THEN 20
             ELSE IF Val(t) >= 10 /\ Val(t) <= 25 THEN 15
             ELSE IF Val(t) >= 5 /\ Val(t) <= 30 THEN 10
             ELSE 5
        ELSE 15

\* Humidity factor (lines 55-72).
humidityFactor(sp, w) ==
    LET h == OptField(w, "humidity")
    IN  IF TruthyNum(h) /\ TruthyNum(sp.optimalHumidity)
        THEN LET humidityDiff == Abs(Val(h) - Val(sp.optimalHumidity))
             IN  IF humidityDiff <= 5 THEN 20
                 ELSE IF humidityDiff <= 10 THEN 15
                 ELSE IF humidityDiff <= 15 THEN 12
                 ELSE IF humidityDiff <= 20 THEN 8
                 ELSE 5
        ELSE IF TruthyNum(h)
        THEN IF Val(h) >= 80 THEN 20
             ELSE IF Val(h) >= 70 THEN 15
             ELSE IF Val(h) >= 60 THEN 10
             ELSE IF Val(h) >= 50 THEN 5
             ELSE 2
        ELSE 12

\* Soil temperature factor (lines 74-90).
soilTemperatureFactor(sp, w) ==
    LET s == OptField(w, "soilTemperature")
    IN  IF TruthyNum(s) /\ TruthyNum(sp.soilTempMin)
        THEN LET m == Val(sp.soilTempMin)
             IN  IF Val(s) >= m + 8 THEN 15
                 ELSE IF Val(s) >= m + 5 THEN 12
                 ELSE IF Val(s) >= m + 2 THEN 10
                 ELSE IF Val(s) >= m THEN 8
                 ELSE IF Val(s) >= m - 3 THEN 5
                 ELSE 2
        ELSE IF TruthyNum(s)
        THEN IF Val(s) >= 12 THEN 12
             ELSE IF Val(s) >= 8 THEN 10
             ELSE IF Val(s) >= 5 THEN 6
             ELSE 3
        ELSE 8

\* The rainfall factor without the null test: null <= 2 holds in JavaScript.
recentRainfallFactor_noNullTest(w) ==
    LET r == ToNumber(OptField(w, "lastRainfall"))
    IN  IF r <= 2 THEN 15
        ELSE IF r <= 4 THEN 12
        ELSE IF r <= 7 THEN 10
        ELSE IF r <= 14 THEN 6
        ELSE IF r <= 21 THEN 3
        ELSE 1

\* The rainfall factor with the tiers 15, 12, 8, 4, 0 of the earlier scorer.
recentRainfallFactor_olderTiers(w) ==
    LET r == OptField(w, "lastRainfall")
    IN  IF ~IsNull(r)
        THEN IF Val(r) <= 2 THEN 15
             ELSE IF Val(r) <= 4 THEN 12
             ELSE IF Val(r) <= 7 THEN 8
             ELSE IF Val(r) <= 14 THEN 4
             ELSE 0
        ELSE 8

\* Recent rainfall factor (lines 92-102).
recentRainfallFactor(w) ==
    LET r == OptField(w, "lastRainfall")
    IN  IF ~IsNull(r)
        THEN IF Val(r) <= 2 THEN 15
             ELSE IF Val(r) <= 4 THEN 12
             ELSE IF Val(r) <= 7 THEN 10
             ELSE IF Val(r) <= 14 THEN 6
             ELSE IF Val(r) <= 21 THEN 3
             ELSE 1
        ELSE 8

\* Elevation factor (lines 104-129).
elevationFactor(sp, loc) ==
    IF TruthyNum(loc.elevation) /\ TruthyNum(sp.elevationMin) /\ TruthyNum(sp.elevationMax)
    THEN LET e == Val(loc.elevation)
             lo == Val(sp.elevationMin)
             hi == Val(sp.elevationMax)
         IN  IF e >= lo /\ e <= hi THEN 10
             ELSE LET closestDiff == Min2(Abs(e - lo), Abs(e - hi))
                  IN  IF closestDiff <= 50 THEN 9
                      ELSE IF closestDiff <= 100 THEN 8
                      ELSE IF closestDiff <= 200 THEN 6
                      ELSE IF closestDiff <= 400 THEN 4
                      ELSE IF closestDiff <= 600 THEN 2
                      ELSE 1
    ELSE IF TruthyNum(loc.elevation)
    THEN LET e == Val(loc.elevation)
         IN  IF e >= 400 /\ e <= 1200 THEN 8
             ELSE IF e >= 200 /\ e <= 1600 THEN 6
             ELSE IF e >= 100 /\ e <= 2000 THEN 4
             ELSE 2
    ELSE 6

\* The callback of species.forestTypes.some (lines 133-147).
forestMatches(locForest, type) ==
    LET locationType == IF TruthyStr(locForest) THEN toLowerCase(Val(locForest)) ELSE <<>>
        speciesType == toLowerCase(type)
    IN  \/ locationType = speciesType
        \/ includes(locationType, Low("mixed")) /\ includes(speciesType, Low("mixed"))
        \/ /\ includes(locationType, Low("conifer"))
           /\ (includes(speciesType, Low("conifer")) \/ includes(speciesType, Low("softwood")))
        \/ /\ includes(locationType, Low("hardwood"))
           /\ (includes(speciesType, Low("hardwood")) \/ includes(speciesType, Low("deciduous")))
        \/ includes(locationType, Low("deciduous")) /\ includes(speciesType, Low("hardwood"))

\* The condition of line 132 without the test of forestTypes.length.
forestGuard_noLengthTest(sp, loc) ==
    TruthyStr(loc.forestType) /\ TruthyArr(sp.forestTypes)

\* The condition of line 132.
forestGuard(sp, loc) ==
    TruthyStr(loc.forestType) /\ TruthyArr(sp.forestTypes) /\ Len(Val(sp.forestTypes)) > 0

\* Forest type factor (lines 131-158).
forestTypeFactor(sp, loc) ==
    IF forestGuard(sp, loc)
    THEN IF \E i \in 1..Len(Val(sp.forestTypes)) :
                forestMatches(loc.forestType, Val(sp.forestTypes)[i])
         THEN 10 ELSE 3
    ELSE IF TruthyStr(loc.forestType)
    THEN LET forestType == toLowerCase(Val(loc.forestType))
         IN  IF includes(forestType, Low("mixed")) THEN 8
             ELSE IF includes(forestType, Low("conifer")) \/ includes(forestType, Low("hardwood"))
                  THEN 6
             ELSE 4
    ELSE 5

\* The tree matcher without the birch / Birke / Betula variation.
treeMatches_noBirch(tree, assoc) ==
    LET treeStr == toLowerCase(tree)
        assocStr == toLowerCase(assoc)
        T(x) == includes(treeStr, Low(x))
        A(x) == includes(assocStr, Low(x))
    IN  \/ treeStr = assocStr
        \/ (T("spruce") \/ T("fichte")) /\ (A("spruce") \/ A("picea"))
        \/ (T("beech") \/ T("buche")) /\ (A("beech") \/ A("fagus"))
        \/ (T("fir") \/ T("tanne")) /\ (A("fir") \/ A("abies"))
        \/ (T("pine") \/ T("kiefer")) /\ (A("pine") \/ A("pinus"))
        \/ (T("oak") \/ T("eiche")) /\ (A("oak") \/ A("quercus"))
        \/ includes(treeStr, assocStr)
        \/ includes(assocStr, treeStr)

\* The callback of species.treeAssociations.some (lines 163-186).
treeMatches(tree, assoc) ==
    LET treeStr == toLowerCase(tree)
        assocStr == toLowerCase(assoc)
        T(x) == includes(treeStr, Low(x))
        A(x) == includes(assocStr, Low(x))
    IN  \/ treeStr = assocStr
        \/ (T("spruce") \/ T("fichte")) /\ (A("spruce") \/ A("picea"))
        \/ (T("beech") \/ T("buche")) /\ (A("beech") \/ A("fagus"))
        \/ (T("fir") \/ T("tanne")) /\ (A("fir") \/ A("abies"))
        \/ (T("pine") \/ T("kiefer")) /\ (A("pine") \/ A("pinus"))
        \/ (T("oak") \/ T("eiche")) /\ (A("oak") \/ A("quercus"))
        \/ (T("birch") \/ T("birke")) /\ (A("birch") \/ A("betula"))
        \/ includes(treeStr, assocStr)
        \/ includes(assocStr, treeStr)

\* The count of the (tree, association) pairs that match, instead of the trees.
matchingTrees_countPairs(trees, assocs) ==
    Cardinality({pair \in (1..Len(trees)) \X (1..Len(assocs)) :
                    treeMatches(trees[pair[1]], assocs[pair[2]])})

\* location.treeSpecies.filter(...).length (lines 162-187).
matchingTrees(trees, assocs) ==
    Cardinality({i \in 1..Len(trees) :
                    \E j \in 1..Len(assocs) : treeMatches(trees[i], assocs[j])})

\* The condition of line 161 without the test of location.treeSpecies.
treeGuard_noLocationTest(sp, loc) ==
    /\ TruthyArr(sp.treeAssociations)
    /\ Len(Val(sp.treeAssociations)) > 0

\* The condition of line 161.
treeGuard(sp, loc) ==
    /\ TruthyArr(loc.treeSpecies)
    /\ TruthyArr(sp.treeAssociations)
    /\ Len(Val(sp.treeAssociations)) > 0

\* Tree species factor (lines 160-197).  matchRatio >= 0.7 is compared on
\* integers: matching / n >= 7/10 iff 10 * matching >= 7 * n.
treeSpeciesFactor(sp, loc) ==
    IF treeGuard(sp, loc)
    THEN LET m == matchingTrees(Val(loc.treeSpecies), Val(sp.treeAssociations))
             n == Max2(Len(Val(loc.treeSpecies)), 1)
         IN  IF 10 * m >= 7 * n THEN 15
             ELSE IF 10 * m >= 5 * n THEN 12
             ELSE IF 10 * m >= 3 * n THEN 10
             ELSE IF 10 * m >= n THEN 6
             ELSE 3
    ELSE 8

\* A property read or a method call on null throws a TypeError.  Each line
\* below is one unguarded read of the method: the condition under which the
\* line is reached, and the receiver being null there.
speciesScoringThrows(sp, loc, w) ==
    LET t == OptField(w, "temperature")
        h == OptField(w, "humidity")
        s == OptField(w, "soilTemperature")
        r == OptField(w, "lastRainfall")
    IN  \/ TruthyNum(t) /\ IsNull(w)                         \* lines 38, 46
        \/ TruthyNum(h) /\ IsNull(w)                         \* lines 57, 65
        \/ TruthyNum(s) /\ IsNull(w)                         \* lines 76, 84
        \/ ~IsNull(r) /\ IsNull(w)                           \* lines 93-94
        \/ /\ ~forestGuard(sp, loc)
           /\ TruthyStr(loc.forestType)
           /\ IsNull(loc.forestType)                         \* line 152
        \/ /\ treeGuard(sp, loc)
           /\ (IsNull(loc.treeSpecies) \/ IsNull(sp.treeAssociations)) \* lines 162-163

\* The eight sub-scores (lines 36-200).
speciesFactors(sp, loc, w, month) ==
    [temperature     |-> temperatureFactor(sp, w),
     humidity        |-> humidityFactor(sp, w),
     soilTemperature |-> soilTemperatureFactor(sp, w),
     recentRainfall  |-> recentRainfallFactor(w),
     elevation       |-> elevationFactor(sp, loc),
     forestType      |-> forestTypeFactor(sp, loc),
     treeSpecies     |-> treeSpeciesFactor(sp, loc),
     season          |-> getSeasonalScore(sp.season, month)]

\* The returned object without the Math.min of line 203.
scoreResult_noClamp(f) ==
    LET totalScore == f.temperature + f.humidity + f.soilTemperature
                      + f.recentRainfall + f.elevation + f.forestType
                      + f.treeSpecies + f.season
    IN  [threw |-> FALSE, probability |-> totalScore,
         factors |-> [temperature     |-> f.temperature,
                      humidity        |-> f.humidity,
                      soilTemperature |-> f.soilTemperature,
                      recentRainfall  |-> f.recentRainfall,
                      elevation       |-> f.elevation,
                      forestType      |-> f.forestType,
                      treeSpecies     |-> f.treeSpecies,
                      season          |-> f.season,
                      totalScore      |-> totalScore]]

\* The total score and the returned object (lines 202-218).
scoreResult(f) ==
    LET totalScore == Min2(f.temperature + f.humidity + f.soilTemperature
                           + f.recentRainfall + f.elevation + f.forestType
                           + f.treeSpecies + f.season, 100)
    IN  [threw |-> FALSE, probability |-> totalScore,
         factors |-> [temperature     |-> f.temperature,
                      humidity        |-> f.humidity,
                      soilTemperature |-> f.soilTemperature,
                      recentRainfall  |-> f.recentRainfall,
                      elevation       |-> f.elevation,
                      forestType      |-> f.forestType,
                      treeSpecies     |-> f.treeSpecies,
                      season          |-> f.season,
                      totalScore      |-> totalScore]]

\* calculateSpeciesProbability (lines 19-219).
calculateSpeciesProbability(sp, loc, w, month) ==
    IF speciesScoringThrows(sp, loc, w)
    THEN [threw |-> TRUE]
    ELSE scoreResult(speciesFactors(sp, loc, w, month))

-----------------------------------------------------------------------------
(* Location aggregator of the client: calculateLocationProbability         *)

\* An insertion that puts an element ahead of its equals: an unstable sort.
RECURSIVE insertByProbability_aheadOfEquals(_, _)
insertByProbability_aheadOfEquals(sorted, x) ==
    IF Len(sorted) = 0 THEN <<x>>
    ELSE IF Head(sorted).probability > x.probability
         THEN <<Head(sorted)>> \o insertByProbability_aheadOfEquals(Tail(sorted), x)
         ELSE <<x>> \o sorted

\* Array.prototype.sort with (a, b) => b.probability - a.probability.  The
\* sort is stable (ECMAScript 2019): an element goes behind every element
\* already placed whose probability is not lower.
RECURSIVE insertByProbability(_, _)
insertByProbability(sorted, x) ==
    IF Len(sorted) = 0 THEN <<x>>
    ELSE IF Head(sorted).probability >= x.probability
         THEN <<Head(sorted)>> \o insertByProbability(Tail(sorted), x)
         ELSE <<x>> \o sorted

RECURSIVE sortFrom(_, _)
sortFrom(rest, sorted) ==
    IF Len(rest) = 0 THEN sorted
    ELSE sortFrom(Tail(rest), insertByProbability(sorted, Head(rest)))

sortByProbability(entries) == sortFrom(entries, <<>>)

\* Array.prototype.slice(0, n)
slice(a, n) == SubSeq(a, 1, Min2(n, Len(a)))

\* Array.prototype.filter, keeping the order of the array.
RECURSIVE filterSuitable(_, _)
filterSuitable(a, threshold) ==
    IF Len(a) = 0 THEN <<>>
    ELSE IF Head(a).probability >= threshold
         THEN <<Head(a)>> \o filterSuitable(Tail(a), threshold)
         ELSE filterSuitable(Tail(a), threshold)

\* Math.round of the weighted sum of lines 257-263.  The weights 0.4, 0.35
\* and 0.25 are hundredths, so the sum is an integer number of hundredths;
\* Math.round rounds a half up.  (For probabilities 0..100 the double
\* arithmetic of the code gives the same integer as the exact sum.)
\* The weights 0.5, 0.3, 0.2 of the earlier version of the aggregator.
weight_earlier(index) == IF index = 0 THEN 50 ELSE IF index = 1 THEN 30 ELSE 20

\* The weight of line 260, in hundredths; index counts from 0 as in the code.
weight(index) == IF index = 0 THEN 40 ELSE IF index = 1 THEN 35 ELSE 25

weightedRound(top) ==
    LET term(i) == IF i <= Len(top) THEN top[i] * weight(i - 1) ELSE 0
    IN  (term(1) + term(2) + term(3) + 50) \div 100

\* The condition of line 229 without the !allSpecies test.
catalogIsEmpty_lengthOnly(catalog) == ~IsNull(catalog) /\ Len(Val(catalog)) = 0

\* The condition of line 229: !allSpecies || allSpecies.length === 0.
catalogIsEmpty(catalog) == IsNull(catalog) \/ Len(Val(catalog)) = 0

\* allSpecies.map of lines 233-240.
speciesProbabilitiesOf(all, loc, w, month) ==
    [i \in 1..Len(all) |->
        [species |-> all[i],
         probability |-> calculateSpeciesProbability(all[i], loc, w, month).probability]]

namesOf(entries) == [i \in 1..Len(entries) |-> entries[i].species.name]

speciesOf(entries) == [i \in 1..Len(entries) |-> entries[i].species]

probabilitiesOf(entries) == [i \in 1..Len(entries) |-> entries[i].probability]

\* Lines 255-263: the weighted average of the top three probabilities.
overallProbabilityOf(topProbabilities) ==
    IF Len(topProbabilities) > 0 THEN weightedRound(topProbabilities) ELSE 0

\* The top three of the earlier version of the aggregator.
topSpeciesOf_three(speciesProbabilities) == speciesOf(slice(speciesProbabilities, 3))

\* Lines 250-253: the species of the first five entries.
topSpeciesOf(speciesProbabilities) == speciesOf(slice(speciesProbabilities, 5))

\* Lines 245-269, from the sorted array.
rankResult(speciesProbabilities) ==
    [threw |-> FALSE,
     probability |->
        Min2(overallProbabilityOf(probabilitiesOf(slice(speciesProbabilities, 3))), 100),
     suitableSpecies |-> namesOf(filterSuitable(speciesProbabilities, 35)),
     topSpecies |-> topSpeciesOf(speciesProbabilities)]

\* calculateLocationProbability (lines 224-270); catalog is nullable.  Line
\* 233 calls allSpecies.map, which throws on a null catalog.
calculateLocationProbability(loc, catalog, w, month) ==
    IF catalogIsEmpty(catalog)
    THEN [threw |-> FALSE, probability |-> 0, suitableSpecies |-> <<>>, topSpecies |-> <<>>]
    ELSE IF IsNull(catalog) THEN [threw |-> TRUE]
    ELSE IF \E i \in 1..Len(Val(catalog)) : speciesScoringThrows(Val(catalog)[i], loc, w)
    THEN [threw |-> TRUE]
    ELSE rankResult(sortByProbability(speciesProbabilitiesOf(Val(catalog), loc, w, month)))

\* The catalog after a ranking that sorts allSpecies itself by probability.
catalogAfterRanking_sortedInPlace(loc, catalog, w, month) ==
    IF catalogIsEmpty(catalog) \/ calculateLocationProbability(loc, catalog, w, month).threw
    THEN catalog
    ELSE Some(speciesOf(sortByProbability(speciesProbabilitiesOf(Val(catalog), loc, w, month))))

\* The array allSpecies after calculateLocationProbability has returned:
\* allSpecies.map (line 233) builds a new array, and it is this array that
\* sort (line 243) orders in place; filter, slice and map (lines 246-255)
\* build new arrays again.  Nothing is assigned to allSpecies or its elements.
catalogAfterRanking(loc, catalog, w, month) == catalog

-----------------------------------------------------------------------------
(* Server: GET /api/locations/:id/probability-analysis (routes.ts)         *)

\* tree.includes(assoc) || assoc.includes(tree), lower-cased (lines 465-467, 815-817).
routes_treeMatches(tree, assoc) ==
    \/ includes(toLowerCase(tree), toLowerCase(assoc))
    \/ includes(toLowerCase(assoc), toLowerCase(tree))

routes_matchingTrees(trees, assocs) ==
    Cardinality({i \in 1..Len(trees) :
                    \E j \in 1..Len(assocs) : routes_treeMatches(trees[i], assocs[j])})

\* The factors of one speciesAnalysis entry (lines 421-549).
routes_speciesFactors(sp, loc, w, month) ==
    LET elevation ==
            IF TruthyNum(loc.elevation) /\ TruthyNum(sp.elevationMin) /\ TruthyNum(sp.elevationMax)
            THEN LET e == Val(loc.elevation)
                     lo == Val(sp.elevationMin)
                     hi == Val(sp.elevationMax)
                     closestDiff == Min2(Abs(e - lo), Abs(e - hi))
                 IN  IF e >= lo /\ e <= hi THEN 20
                     ELSE IF closestDiff <= 100 THEN 15
                     ELSE IF closestDiff <= 200 THEN 10
                     ELSE IF closestDiff <= 400 THEN 5
                     ELSE 0
            ELSE 10
        forestType ==
            IF TruthyStr(loc.forestType) /\ TruthyArr(sp.forestTypes)
               /\ Len(Val(sp.forestTypes)) > 0
            THEN LET locationType == toLowerCase(Val(loc.forestType))
                 IN  IF \E i \in 1..Len(Val(sp.forestTypes)) :
                            LET speciesType == toLowerCase(Val(sp.forestTypes)[i])
                            IN  includes(locationType, speciesType)
                                \/ includes(speciesType, locationType)
                     THEN 15 ELSE 5
            ELSE 8
        treeSpecies ==
            IF TruthyArr(loc.treeSpecies) /\ TruthyArr(sp.treeAssociations)
               /\ Len(Val(sp.treeAssociations)) > 0
            THEN LET m == routes_matchingTrees(Val(loc.treeSpecies), Val(sp.treeAssociations))
                     n == Max2(Len(Val(loc.treeSpecies)), 1)
                 IN  IF 10 * m >= 5 * n THEN 15
                     ELSE IF 10 * m >= 3 * n THEN 10
                     ELSE IF 10 * m >= n THEN 5
                     ELSE 2
            ELSE 8
        season == routes_getSeasonScore(sp.season, month)
        t == OptField(w, "temperature")
        h == OptField(w, "humidity")
        r == OptField(w, "lastRainfall")
        s == OptField(w, "soilTemperature")
        temperature ==
            IF IsNull(w) THEN 8
            ELSE IF TruthyNum(sp.optimalTemp) /\ TruthyNum(t)
            THEN LET tempDiff == Abs(Val(t) - Val(sp.optimalTemp))
                 IN  IF tempDiff <= 3 THEN 15
                     ELSE IF tempDiff <= 6 THEN 10
                     ELSE IF tempDiff <= 10 THEN 5
                     ELSE 2
            ELSE IF TruthyNum(t)
            THEN IF Val(t) >= 15 /\ Val(t) <= 22 THEN 12
                 ELSE IF Val(t) >= 10 /\ Val(t) <= 25 THEN 8
                 ELSE 4
            ELSE 8
        humidity ==
            IF IsNull(w) THEN 5
            ELSE IF TruthyNum(sp.optimalHumidity) /\ TruthyNum(h)
            THEN LET humidityDiff == Abs(Val(h) - Val(sp.optimalHumidity))
                 IN  IF humidityDiff <= 5 THEN 10
                     ELSE IF humidityDiff <= 15 THEN 6
                     ELSE 3
            ELSE IF TruthyNum(h)
            THEN IF Val(h) >= 80 THEN 8
                 ELSE IF Val(h) >= 70 THEN 6
                 ELSE 3
            ELSE 5
        rainfall ==
            IF IsNull(w) THEN 5
            ELSE IF ~IsNull(r)
            THEN IF Val(r) <= 3 THEN 10
                 ELSE IF Val(r) <= 7 THEN 6
                 ELSE IF Val(r) <= 14 THEN 3
                 ELSE 1
            ELSE 5
        soilTemp ==
            IF IsNull(w) THEN 5
            ELSE IF TruthyNum(sp.soilTempMin) /\ TruthyNum(s)
            THEN LET m == Val(sp.soilTempMin)
                 IN  IF Val(s) >= m + 3 THEN 10
                     ELSE IF Val(s) >= m THEN 6
                     ELSE IF Val(s) >= m - 3 THEN 3
                     ELSE 1
            ELSE IF TruthyNum(s)
            THEN IF Val(s) >= 12 THEN 8
                 ELSE IF Val(s) >= 8 THEN 5
                 ELSE 2
            ELSE 5
    IN  [elevation |-> elevation, forestType |-> forestType, treeSpecies |-> treeSpecies,
         season |-> season, temperature |-> temperature, humidity |-> humidity,
         rainfall |-> rainfall, soilTemp |-> soilTemp,
         total |-> Min2(elevation + forestType + treeSpecies + season + temperature
                        + humidity + rainfall + soilTemp, 100)]

\* One entry of speciesAnalysis (lines 551-563).
routes_analysisEntry(sp, factors) ==
    [name |-> sp.name, probability |-> factors.total, factors |-> factors]

routes_speciesAnalysis(sp, loc, w, month) ==
    routes_analysisEntry(sp, routes_speciesFactors(sp, loc, w, month))

\* calculateForagingProbability (routes.ts lines 619-767).
calculateForagingProbability(loc, w, month) ==
    LET elevation ==
            IF TruthyNum(loc.elevation)
            THEN LET e == Val(loc.elevation)
                 IN  (IF e >= 400 /\ e <= 1200 THEN 15
                      ELSE IF e >= 200 /\ e <= 1600 THEN 10
                      ELSE IF e >= 100 /\ e <= 2000 THEN 5
                      ELSE 0)
                     + (IF e > 2500 \/ e < 100 THEN -10 ELSE 0)
            ELSE 0
        forest ==
            IF TruthyStr(loc.forestType)
            THEN LET forestType == toLowerCase(Val(loc.forestType))
                 IN  IF includes(forestType, Low("mixed")) THEN 12
                     ELSE IF includes(forestType, Low("conifer"))
                             \/ includes(forestType, Low("hardwood")) THEN 8
                     ELSE IF includes(forestType, Low("deciduous")) THEN 8
                     ELSE 0
            ELSE 0
        valuableTrees == {"oak", "beech", "birch", "pine", "spruce", "fir"}
        trees ==
            IF TruthyArr(loc.treeSpecies) /\ Len(Val(loc.treeSpecies)) > 0
            THEN LET ts == Val(loc.treeSpecies)
                 IN  (IF Len(ts) >= 4 THEN 8 ELSE IF Len(ts) >= 2 THEN 5 ELSE 0)
                     + (IF \E i \in 1..Len(ts) : \E v \in valuableTrees :
                              includes(toLowerCase(ts[i]), Low(v))
                        THEN 5 ELSE 0)
            ELSE 0
        weatherPart ==
            IF IsNull(w) THEN 0
            ELSE LET t == ToNumber(Val(w).temperature)
                     h == ToNumber(Val(w).humidity)
                     r == Val(w).lastRainfall
                     s == Val(w).soilTemperature
                     p == Val(w).pressure
                     v == ToNumber(Val(w).windSpeed)
                 IN  (IF t >= 15 /\ t <= 22 THEN 15
                      ELSE IF t >= 12 /\ t <= 25 THEN 10
                      ELSE IF t >= 8 /\ t <= 28 THEN 5
                      ELSE IF t < 5 \/ t > 35 THEN -10
                      ELSE 0)
                     + (IF h >= 85 THEN 12
                        ELSE IF h >= 75 THEN 10
                        ELSE IF h >= 65 THEN 6
                        ELSE IF h >= 55 THEN 3
                        ELSE -5)
                     + (IF ~IsNull(r)
                        THEN IF Val(r) <= 2 THEN 15
                             ELSE IF Val(r) <= 4 THEN 12
                             ELSE IF Val(r) <= 7 THEN 8
                             ELSE IF Val(r) <= 14 THEN 4
                             ELSE IF Val(r) <= 21 THEN 1
                             ELSE -5
                        ELSE 0)
                     + (IF ~IsNull(s)
                        THEN IF Val(s) >= 12 /\ Val(s) <= 20 THEN 12
                             ELSE IF Val(s) >= 8 /\ Val(s) <= 25 THEN 8
                             ELSE IF Val(s) >= 5 /\ Val(s) <= 30 THEN 4
                             ELSE -5
                        ELSE 0)
                     + (IF TruthyNum(p)
                        THEN IF Val(p) >= 1010 /\ Val(p) <= 1025 THEN 3
                             ELSE IF Val(p) < 995 \/ Val(p) > 1035 THEN -3
                             ELSE 0
                        ELSE 0)
                     + (IF v <= 10 THEN 2 ELSE IF v > 25 THEN -3 ELSE 0)
        seasonal ==
            IF month >= 8 /\ month <= 10 THEN 8
            ELSE IF month >= 5 /\ month <= 7 THEN 6
            ELSE IF month >= 2 /\ month <= 4 THEN 4
            ELSE 1
        access ==
            IF loc.accessibility = Some("easy") THEN 3
            ELSE IF loc.accessibility = Some("moderate") THEN 1
            ELSE 0
        probability == 50 + elevation + forest + trees + weatherPart + seasonal + access
    IN  Min2(Max2(probability, 0), 100)

\* The score of the filter callback of getSuitableSpeciesForLocation (lines 773-848).
routes_suitabilityScore(sp, loc, w, month) ==
    LET elevation ==
            IF TruthyNum(loc.elevation) /\ TruthyNum(sp.elevationMin) /\ TruthyNum(sp.elevationMax)
            THEN LET e == Val(loc.elevation)
                     lo == Val(sp.elevationMin)
                     hi == Val(sp.elevationMax)
                     closestDiff == Min2(Abs(e - lo), Abs(e - hi))
                 IN  IF e >= lo /\ e <= hi THEN 20
                     ELSE IF closestDiff <= 200 THEN 10
                     ELSE IF closestDiff <= 500 THEN 5
                     ELSE 0
            ELSE 10
        forest ==
            IF TruthyStr(loc.forestType) /\ TruthyArr(sp.forestTypes)
               /\ Len(Val(sp.forestTypes)) > 0
            THEN LET locationType == toLowerCase(Val(loc.forestType))
                 IN  IF \E i \in 1..Len(Val(sp.forestTypes)) :
                            LET speciesType == toLowerCase(Val(sp.forestTypes)[i])
                            IN  \/ locationType = speciesType
                                \/ includes(locationType, Low("mixed"))
                                   /\ includes(speciesType, Low("mixed"))
                                \/ includes(locationType, Low("conifer"))
                                   /\ includes(speciesType, Low("conifer"))
                                \/ includes(locationType, Low("hardwood"))
                                   /\ includes(speciesType, Low("hardwood"))
                                \/ includes(locationType, Low("deciduous"))
                                   /\ includes(speciesType, Low("hardwood"))
                     THEN 15 ELSE 5
            ELSE 8
        trees ==
            IF TruthyArr(loc.treeSpecies) /\ TruthyArr(sp.treeAssociations)
               /\ Len(Val(sp.treeAssociations)) > 0
            THEN LET m == routes_matchingTrees(Val(loc.treeSpecies), Val(sp.treeAssociations))
                     n == Max2(Len(Val(loc.treeSpecies)), 1)
                 IN  IF 10 * m >= 5 * n THEN 15
                     ELSE IF 10 * m >= 3 * n THEN 10
                     ELSE IF 10 * m >= n THEN 5
                     ELSE 0
            ELSE 8
        t == OptField(w, "temperature")
        h == OptField(w, "humidity")
        temp ==
            IF ~IsNull(w) /\ TruthyNum(sp.optimalTemp) /\ TruthyNum(t)
            THEN LET tempDiff == Abs(Val(t) - Val(sp.optimalTemp))
                 IN  IF tempDiff <= 5 THEN 10 ELSE IF tempDiff <= 10 THEN 5 ELSE 0
            ELSE 0
        hum ==
            IF ~IsNull(w) /\ TruthyNum(sp.optimalHumidity) /\ TruthyNum(h)
            THEN LET humidityDiff == Abs(Val(h) - Val(sp.optimalHumidity))
                 IN  IF humidityDiff <= 10 THEN 10 ELSE IF humidityDiff <= 20 THEN 5 ELSE 0
            ELSE 0
    IN  elevation + forest + trees + routes_getSeasonScore(sp.season, month) + temp + hum

\* getSuitableSpeciesForLocation (lines 769-852): the names, in catalog order.
RECURSIVE getSuitableSpeciesForLocation(_, _, _, _)
getSuitableSpeciesForLocation(catalog, loc, w, month) ==
    IF Len(catalog) = 0 THEN <<>>
    ELSE IF routes_suitabilityScore(Head(catalog), loc, w, month) >= 40
         THEN <<Head(catalog).name>>
              \o getSuitableSpeciesForLocation(Tail(catalog), loc, w, month)
         ELSE getSuitableSpeciesForLocation(Tail(catalog), loc, w, month)

\* The response of the endpoint (lines 410-592): the sorted analysis cut to
\* ten entries, the overall probability and the suitable species.
probabilityAnalysis(catalog, loc, w, month) ==
    LET speciesAnalysis ==
            sortByProbability([i \in 1..Len(catalog) |->
                                  routes_speciesAnalysis(catalog[i], loc, w, month)])
    IN  [overallProbability |-> calculateForagingProbability(loc, w, month),
         suitableSpecies |-> getSuitableSpeciesForLocation(catalog, loc, w, month),
         speciesAnalysis |-> slice(speciesAnalysis, 10)]

-----------------------------------------------------------------------------
(* Client: calculateServerCompatibleProbability (lines 362-413)            *)

calculateServerCompatibleProbability(loc, w) ==
    LET elevation ==
            IF TruthyNum(loc.elevation) /\ Val(loc.elevation) >= 400
                  /\ Val(loc.elevation) <= 1200
            THEN 15 ELSE 0
        forest ==
            IF loc.forestType = Some(Cap("mixed")) THEN 10
            ELSE IF loc.forestType = Some(Cap("conifer"))
                    \/ loc.forestType = Some(Cap("hardwood")) THEN 5
            ELSE 0
        weatherPart ==
            IF IsNull(w) THEN 0
            ELSE LET t == Val(w).temperature
                     h == Val(w).humidity
                     r == Val(w).lastRainfall
                     s == Val(w).soilTemperature
                 IN  (IF ~IsNull(t) /\ Val(t) >= 15 /\ Val(t) <= 22 THEN 15
                      ELSE IF ~IsNull(t) /\ Val(t) >= 10 /\ Val(t) <= 25 THEN 5
                      ELSE 0)
                     + (IF ~IsNull(h) /\ Val(h) >= 80 THEN 10
                        ELSE IF ~IsNull(h) /\ Val(h) >= 70 THEN 5
                        ELSE 0)
                     + (IF ~IsNull(r) /\ Val(r) <= 3 THEN 10
                        ELSE IF ~IsNull(r) /\ Val(r) <= 7 THEN 5
                        ELSE 0)
                     + (IF ~IsNull(s) /\ Val(s) >= 12 THEN 10 ELSE 0)
        probability == 50 + elevation + forest + weatherPart
    IN  Min2(Max2(probability, 0), 100)

-----------------------------------------------------------------------------
(* Swiss Fungi sync service: SwissFungiSyncService and the species store   *)

\* A scientific name as the sources write it: the genus with a capital, a
\* space, the epithet.
ScientificName(genus, epithet) == Cap(genus) \o <<Space>> \o Low(epithet)

\* The species MemStorage.initializeData puts into the store.
SeededNames ==
    { ScientificName("boletus", "edulis"), ScientificName("cantharellus", "cibarius"),
      ScientificName("morchella", "esculenta"), ScientificName("pleurotus", "ostreatus") }

\* scientificName of the entries of curatedSpecies, in the order of the list.
curatedSpecies ==
    << ScientificName("amanita", "muscaria"), ScientificName("amanita", "phalloides"),
       ScientificName("lactarius", "deliciosus"), ScientificName("russula", "cyanoxantha"),
       ScientificName("suillus", "luteus"), ScientificName("hydnum", "repandum"),
       ScientificName("craterellus", "cornucopioides"), ScientificName("leccinum", "scabrum"),
       ScientificName("armillaria", "mellea"), ScientificName("fomes", "fomentarius") >>

CuratedNames == {curatedSpecies[i] : i \in 1..Len(curatedSpecies)}

\* Names the Swiss Fungi site may list: a species of the curated list and a
\* species that is neither curated nor seeded.
ListedNames ==
    { ScientificName("amanita", "muscaria"), ScientificName("tuber", "aestivum") }

AllNames == SeededNames \cup CuratedNames \cup ListedNames

\* The largest number of species fetchAllSpecies returns.
MaxFetched == 2

\* extractRecentSpecies returns names without duplicates ([...new Set(species)]),
\* and fetchAllSpecies keeps their order.
RECURSIVE FetchedListsOf(_)
FetchedListsOf(n) ==
    IF n = 0 THEN {<<>>}
    ELSE LET shorter == FetchedListsOf(n - 1)
         IN  shorter \cup {Append(l, x) : l \in {k \in shorter : Len(k) = n - 1},
                                          x \in ListedNames}

FetchedLists ==
    {l \in FetchedListsOf(MaxFetched) : \A i, j \in 1..Len(l) : l[i] = l[j] => i = j}

\* The options the sync route builds from the request body.
SyncOptions == [maxSpecies : {None, Some(1)}, addMissing : BOOLEAN]

\* MemStorage.createMushroomSpecies: a new record under a fresh id.  The store
\* gives, for each scientific name, the number of records that carry it.
createMushroomSpecies(st, name) == [st EXCEPT ![name] = @ + 1]

\* The names of storage.getMushroomSpecies(), lower-cased (the keys of
\* existingByScientificName, and existingNames).  Of the keys only those are
\* kept that the caller can ask for: the names the site may list for a sync,
\* the curated names for addCuratedSwissSpecies.
existingNames(st, asked) == {toLowerCase(n) : n \in {m \in asked : st[m] > 0}}

\* The test of syncWithSwissFungi's first statement without the flag.
syncAlreadyInProgress_never(flag) == FALSE

\* if (this.syncInProgress) throw new Error('Sync already in progress')
syncAlreadyInProgress(flag) == flag

\* The flag cleared on the successful path only.
syncInProgressAfter_successOnly(outcome) == outcome # "report"

\* finally { this.syncInProgress = false }: after a report and after an error.
syncInProgressAfter(outcome) == FALSE

\* The membership test with the name as written, not lower-cased.
curatedExists_asWritten(names, name) == name \in names

\* existingNames.has(species.scientificName.toLowerCase())
curatedExists(names, name) == toLowerCase(name) \in names

\* The position of the first curated species from position i on that is not
\* among the names, or one past the list.
RECURSIVE nextMissing(_, _)
nextMissing(names, i) ==
    IF i > Len(curatedSpecies) THEN i
    ELSE IF curatedExists(names, curatedSpecies[i]) THEN nextMissing(names, i + 1)
    ELSE i

\* The number of requests to the service.
MaxCalls == 2

Calls == 1..MaxCalls

\* The counters of a SyncReport (updatedSpecies stays 0: nothing is updated,
\* the service only logs what it would update).
NewReport ==
    [totalSwissSpecies |-> 0, existingSpecies |-> 0, newSpeciesAdded |-> 0,
     errors |-> 0, missingSpecies |-> 0]

\* A request that has not arrived.
NoCall ==
    [kind |-> "none", pc |-> "idle", status |-> 0, report |-> NewReport,
     existing |-> {}, options |-> [maxSpecies |-> None, addMissing |-> FALSE],
     fetched |-> <<>>, toProcess |-> <<>>, index |-> 0, afterCurated |-> FALSE,
     inProgressAtArrival |-> FALSE]

\* A request that has been answered: its local variables are gone, the
\* response (status and report) remains.
Answered(call, pc, status, report) ==
    [NoCall EXCEPT !.kind = call.kind, !.pc = pc, !.status = status, !.report = report,
                   !.afterCurated = call.afterCurated,
                   !.inProgressAtArrival = call.inProgressAtArrival]

\* The server has started: the store holds the seeded species, no sync runs.
ServiceStarted ==
    /\ store = [n \in AllNames |-> IF n \in SeededNames THEN 1 ELSE 0]
    /\ syncInProgress = FALSE
    /\ lastSyncDate = None
    /\ clock = 1
    /\ calls = [c \in Calls |-> NoCall]

\* getSyncStatus()
getSyncStatus == [inProgress |-> syncInProgress, lastSyncDate |-> lastSyncDate]

-----------------------------------------------------------------------------
(* Inputs of the species scorers                                           *)

Species(name, season, optimalTemp, optimalHumidity, soilTempMin, elevationRange, treeAssociations, forestTypes) ==
    [name |-> name, season |-> season, optimalTemp |-> optimalTemp,
     optimalHumidity |-> optimalHumidity, soilTempMin |-> soilTempMin,
     elevationMin |-> elevationRange[1], elevationMax |-> elevationRange[2],
     treeAssociations |-> treeAssociations, forestTypes |-> forestTypes]

Location(elevation, forestType, treeSpecies) ==
    [elevation |-> elevation, forestType |-> forestType, treeSpecies |-> treeSpecies,
     accessibility |-> None]

Weather(temperature, humidity, soilTemperature, lastRainfall) ==
    Some([temperature |-> temperature, humidity |-> humidity,
          soilTemperature |-> soilTemperature, lastRainfall |-> lastRainfall,
          pressure |-> None, windSpeed |-> None])

\* The weather-dependent inputs: the snapshot and the species' optima.
WeatherSide ==
    [weather : {None} \cup
               {Weather(t, h, s, r) :
                   t \in {None, Some(0), Some(18), Some(35)},
                   h \in {None, Some(80), Some(40)},
                   s \in {None, Some(16), Some(3)},
                   r \in {None, Some(0), Some(30)}},
     optimalTemp : {None, Some(18)},
     optimalHumidity : {None, Some(80)},
     soilTempMin : {None, Some(8)}]

WeatherProfiles ==
    { [weather |-> None, optimalTemp |-> None, optimalHumidity |-> None,
       soilTempMin |-> None],
      [weather |-> Weather(Some(18), Some(80), Some(16), Some(0)),
       optimalTemp |-> Some(18), optimalHumidity |-> Some(80), soilTempMin |-> Some(8)],
      [weather |-> Weather(Some(35), Some(40), Some(3), Some(30)),
       optimalTemp |-> Some(18), optimalHumidity |-> Some(80), soilTempMin |-> Some(8)] }

\* The elevation range convertToInternalFormat writes for an imported species
\* (swiss-fungi-fetcher.ts lines 216-217): min || 0 and max || 3000.
convertToInternalFormat_elevation(min, max) ==
    <<Some(IF TruthyNum(min) THEN Val(min) ELSE 0),
      Some(IF TruthyNum(max) THEN Val(max) ELSE 3000)>>

\* The habitat inputs: the location and the species' habitat preferences.
HabitatSide ==
    [elevation : {None, Some(0), Some(800), Some(2500)},
     forestType : {None, Some(<<>>), Some(Cap("conifer")), Some(Cap("mixed")),
                   Some(Cap("riverbank"))},
     treeSpecies : {None, Some(<<>>), Some(<<Cap("fichte")>>),
                    Some(<<Cap("fichte"), <<>>, Cap("buche")>>)},
     elevationRange : {<<None, None>>, <<Some(400), Some(1200)>>,
                       convertToInternalFormat_elevation(None, None)},
     treeAssociations : {None, Some(<<>>), Some(<<Low("spruce")>>)},
     forestTypes : {None, Some(<<>>), Some(<<Low("softwood")>>)}]

HabitatProfiles ==
    { [elevation |-> None, forestType |-> None, treeSpecies |-> None,
       elevationRange |-> <<None, None>>, treeAssociations |-> None, forestTypes |-> None],
      [elevation |-> Some(800), forestType |-> Some(Cap("conifer")),
       treeSpecies |-> Some(<<Cap("fichte")>>),
       elevationRange |-> <<Some(400), Some(1200)>>,
       treeAssociations |-> Some(<<Low("spruce")>>),
       forestTypes |-> Some(<<Low("softwood")>>)],
      [elevation |-> Some(2500), forestType |-> Some(Cap("mixed")),
       treeSpecies |-> Some(<<Cap("buche")>>),
       elevationRange |-> <<Some(400), Some(1200)>>,
       treeAssociations |-> Some(<<Low("spruce")>>),
       forestTypes |-> Some(<<Low("softwood")>>)] }

\* The seasonal inputs: the species' season label and the month of the call.
SeasonSide ==
    [season : {AllYear, Spring, Summer, Fall, Winter,
               Summer \o <<Comma, Space>> \o Fall, Low("fall"), <<>>},
     month : 0..11]

SeasonProfiles ==
    { [season |-> AllYear, month |-> 0],
      [season |-> Fall, month |-> 7],
      [season |-> Fall, month |-> 3] }

\* The largest number of days since the last rain.
MaxRainDays == 23

\* The days since the last rain, in a snapshot that is otherwise favourable.
RainSide ==
    [weather : {Weather(Some(18), Some(80), Some(16), Some(r)) : r \in 0..MaxRainDays},
     optimalTemp : {Some(18)},
     optimalHumidity : {Some(80)},
     soilTempMin : {Some(8)}]

\* The largest number of trees recorded for a location.
MaxTrees == 11

\* The tree lists of a location: spruces under their German name and beeches,
\* in every number and order.
TreeLists == UNION {[1..n -> {Cap("fichte"), Cap("buche")}] : n \in 1..MaxTrees}

\* The tree lists against a species that grows with spruce, named once or
\* twice in its associations.
TreeSide ==
    [elevation : {Some(800)},
     forestType : {Some(Cap("conifer"))},
     treeSpecies : {Some(trees) : trees \in TreeLists},
     elevationRange : {<<Some(400), Some(1200)>>},
     treeAssociations : {Some(<<Low("spruce")>>), Some(<<Low("spruce"), Low("picea")>>)},
     forestTypes : {Some(<<Low("softwood")>>)}]

\* The six trees of the Swiss name variations: the English and the German name.
TreeNames ==
    { <<"spruce", "fichte">>, <<"beech", "buche">>, <<"fir", "tanne">>,
      <<"pine", "kiefer">>, <<"oak", "eiche">>, <<"birch", "birke">> }

\* A location with one tree, named in German or in English, in capitals or
\* not, or by a longer English name, against a species with one association
\* named in English.
SynonymSide ==
    [elevation : {Some(800)},
     forestType : {Some(Cap("conifer"))},
     treeSpecies : {Some(<<tree>>) :
                       tree \in UNION {{Cap(n[2]), Low(n[2]), Cap(n[1]),
                                        Cap("european") \o <<Space>> \o Low(n[1])} :
                                          n \in TreeNames}},
     elevationRange : {<<Some(400), Some(1200)>>},
     treeAssociations : {Some(<<assoc>>) :
                            assoc \in UNION {{Low(n[1]), Cap(n[1]),
                                              Cap("silver") \o <<Space>> \o Cap(n[1])} :
                                               n \in TreeNames}},
     forestTypes : {Some(<<Low("softwood")>>)}]

\* Forest-type names as they are written for locations and for species.
ForestNames ==
    { Cap("conifer") \o Low("ous"), Low("softwood"), Cap("hardwood"), Low("deciduous"),
      Cap("mixed") \o <<Space>> \o Cap("forest"), Low("mixed"), Low("conifer") \o Low("ous") }

\* Every forest-type name of a location against every one-entry forest-type
\* set of a species.
ForestSide ==
    [elevation : {Some(800)},
     forestType : {Some(name) : name \in ForestNames},
     treeSpecies : {None},
     elevationRange : {<<Some(400), Some(1200)>>},
     treeAssociations : {None},
     forestTypes : {Some(<<name>>) : name \in ForestNames}]

\* One side ranges over all its values while the other two take a profile.
ScoringInputs ==
    (WeatherSide \X HabitatProfiles \X SeasonProfiles)
    \cup (WeatherProfiles \X HabitatSide \X SeasonProfiles)
    \cup (WeatherProfiles \X HabitatProfiles \X SeasonSide)
    \cup (RainSide \X HabitatProfiles \X SeasonProfiles)
    \cup ({[weather |-> None, optimalTemp |-> None, optimalHumidity |-> None,
              soilTempMin |-> None]}
          \X (TreeSide \cup ForestSide \cup SynonymSide)
          \X {[season |-> AllYear, month |-> 0]})

-----------------------------------------------------------------------------
(* Specification of the species scorers                                    *)

InitScore ==
    /\ \E in \in ScoringInputs :
          /\ weather = in[1].weather
          /\ species = Species("sp", in[3].season, in[1].optimalTemp,
                               in[1].optimalHumidity, in[1].soilTempMin,
                               in[2].elevationRange, in[2].treeAssociations,
                               in[2].forestTypes)
          /\ location = Location(in[2].elevation, in[2].forestType, in[2].treeSpecies)
          /\ currentMonth = in[3].month
          /\ allSpecies = Some(<<Species("sp", in[3].season, in[1].optimalTemp,
                                         in[1].optimalHumidity, in[1].soilTempMin,
                                         in[2].elevationRange, in[2].treeAssociations,
                                         in[2].forestTypes)>>)
    /\ clientResult = None
    /\ seasonLabel = None
    /\ seasonResult = None
    /\ firstRank = None
    /\ lastRank = None
    /\ analysis = None
    /\ ticks = 0
    /\ compatible = None /\ foraging = None /\ phenology = {}
    /\ ServiceStarted

\* The client scores the species for the location.
ScoreSpecies ==
    /\ clientResult' = Some(calculateSpeciesProbability(species, location, weather, currentMonth))
    /\ UNCHANGED <<currentMonth, species, location, weather, allSpecies, seasonLabel,
                   seasonResult, firstRank, lastRank, analysis, ticks>>
    /\ UNCHANGED <<compatible, foraging, phenology>>
    /\ UNCHANGED syncVars

\* The client ranks the location over the catalog.  The call is recorded with
\* its arguments and the month in which it was made.
RecordRank(call) ==
    /\ firstRank' = IF IsNull(firstRank) THEN Some(call) ELSE firstRank
    /\ lastRank' = Some(call)

RankLocation ==
    /\ RecordRank([month |-> currentMonth,
                   args |-> [location |-> location, allSpecies |-> allSpecies,
                             weather |-> weather],
                   result |-> calculateLocationProbability(location, allSpecies, weather,
                                                           currentMonth)])
    /\ allSpecies' = catalogAfterRanking(location, allSpecies, weather, currentMonth)
    /\ UNCHANGED <<currentMonth, species, location, weather, clientResult,
                   seasonLabel, seasonResult, analysis, ticks>>
    /\ UNCHANGED <<compatible, foraging, phenology>>
    /\ UNCHANGED syncVars

\* The server answers GET /api/locations/:id/probability-analysis.
ProbabilityAnalysis ==
    /\ ~catalogIsEmpty(allSpecies)
    /\ analysis' = Some(probabilityAnalysis(Val(allSpecies), location, weather, currentMonth))
    /\ UNCHANGED <<currentMonth, species, location, weather, allSpecies, clientResult,
                   seasonLabel, seasonResult, firstRank, lastRank, ticks>>
    /\ UNCHANGED <<compatible, foraging, phenology>>
    /\ UNCHANGED syncVars

NextScore == ScoreSpecies \/ RankLocation \/ ProbabilityAnalysis

SpecScore == InitScore /\ [][NextScore]_vars

-----------------------------------------------------------------------------
(* Specification of the location ranking                                   *)

\* The number of month changes a behaviour goes through.
MaxTicks == 1

DryWeather == Weather(Some(35), Some(40), Some(3), Some(30))

SpruceForest == Location(Some(800), Some(Cap("conifer")), Some(<<Cap("fichte")>>))

\* Six species in the order of the store.  Under DryWeather at SpruceForest:
\* bolete and russula score alike, as do milkcap and blewit; milkcap and
\* blewit cross the inclusion threshold with the month; truffle stays below it.
RankPool ==
    << Species("bolete", Fall, Some(18), Some(80), Some(8), <<Some(400), Some(1200)>>,
               Some(<<Low("spruce")>>), Some(<<Low("softwood")>>)),
       Species("russula", Fall, Some(18), Some(80), Some(8), <<Some(400), Some(1200)>>,
               Some(<<Low("spruce")>>), Some(<<Low("softwood")>>)),
       Species("milkcap", Summer, Some(18), Some(80), Some(8), <<Some(400), Some(1200)>>,
               Some(<<Low("oak")>>), Some(<<Low("mixed")>>)),
       Species("blewit", Summer, Some(18), Some(80), Some(8), <<Some(400), Some(1200)>>,
               Some(<<Low("oak")>>), Some(<<Low("mixed")>>)),
       Species("morel", Spring, Some(18), Some(80), Some(8), <<Some(400), Some(1200)>>,
               Some(<<Low("oak")>>), Some(<<Low("softwood")>>)),
       Species("truffle", Winter, Some(18), Some(80), Some(8), <<Some(3000), Some(4000)>>,
               Some(<<Low("oak")>>), Some(<<Low("mixed")>>)) >>

\* Catalogs of up to MaxPermuted species come in every order.
MaxPermuted == 3

\* The species at the positions T of the store, in store order.
StoreOrder(T) ==
    LET keep(x) == \E n \in T : RankPool[n] = x
    IN  SelectSeq(RankPool, keep)

Reverse(s) == [i \in 1..Len(s) |-> s[Len(s) + 1 - i]]

\* Every ordering of the species of a set.
RECURSIVE Orderings(_)
Orderings(S) ==
    IF S = {} THEN {<<>>}
    ELSE UNION {{<<x>> \o rest : rest \in Orderings(S \ {x})} : x \in S}

\* The catalogs: every selection of species of the store; the small ones in
\* every order, the larger ones in store order and in the reverse order.
Catalogs ==
    UNION {IF Cardinality(T) <= MaxPermuted
           THEN Orderings({RankPool[n] : n \in T})
           ELSE {StoreOrder(T), Reverse(StoreOrder(T))} : T \in SUBSET (1..Len(RankPool))}

InitRank ==
    /\ \/ /\ allSpecies \in {None, Some(<<>>)}
          /\ location \in {Location(None, None, None), SpruceForest}
          /\ weather \in {None, DryWeather, Weather(Some(18), Some(80), Some(16), Some(0))}
       \/ /\ allSpecies \in {Some(c) : c \in Catalogs \ {<<>>}}
          /\ location = SpruceForest
          /\ weather = DryWeather
    /\ currentMonth \in 0..11
    /\ species = Species("sp", AllYear, None, None, None, <<None, None>>, None, None)
    /\ clientResult = None
    /\ seasonLabel = None
    /\ seasonResult = None
    /\ firstRank = None
    /\ lastRank = None
    /\ analysis = None
    /\ ticks = 0
    /\ compatible = None /\ foraging = None /\ phenology = {}
    /\ ServiceStarted

\* The month changes: new Date().getMonth() returns the next month.
Tick ==
    /\ ticks < MaxTicks
    /\ ticks' = ticks + 1
    /\ currentMonth' = (currentMonth + 1) % 12
    /\ UNCHANGED <<species, location, weather, allSpecies, clientResult, seasonLabel,
                   seasonResult, firstRank, lastRank, analysis>>
    /\ UNCHANGED <<compatible, foraging, phenology>>
    /\ UNCHANGED syncVars

NextRank == RankLocation \/ Tick

SpecRank == InitRank /\ [][NextRank]_vars

-----------------------------------------------------------------------------
(* Specification of the seasonal timing model                              *)

\* The number of atoms of a compound season label.
MaxAtoms == 3

SeasonNames == {Spring, Summer, Fall, Winter}

SeasonAtoms == SeasonNames \cup {Low("fall"), Cap("autumn"), <<>>}

Separators == {<<Comma>>, <<Comma, Space>>, <<Space, Comma, Space>>}

RECURSIVE join(_, _)
join(atoms, sep) ==
    IF Len(atoms) = 0 THEN <<>>
    ELSE IF Len(atoms) = 1 THEN atoms[1]
    ELSE atoms[1] \o sep \o join(Tail(atoms), sep)

AtomLists == UNION {[1..n -> SeasonAtoms] : n \in 1..MaxAtoms}

InitSeason ==
    /\ \/ \E atoms \in AtomLists, sep \in Separators :
             seasonLabel = [atoms |-> atoms, text |-> join(atoms, sep)]
       \/ seasonLabel = [atoms |-> <<AllYear>>, text |-> AllYear]
    /\ currentMonth \in 0..11
    /\ species = Species("sp", AllYear, None, None, None, <<None, None>>, None, None)
    /\ location = Location(None, None, None)
    /\ weather = None
    /\ allSpecies = None
    /\ clientResult = None
    /\ seasonResult = [client |-> None, server |-> None]
    /\ firstRank = None
    /\ lastRank = None
    /\ analysis = None
    /\ ticks = 0
    /\ compatible = None /\ foraging = None /\ phenology = {}
    /\ ServiceStarted

\* The client scores the label and each of its atoms in the current month.
ScoreSeasonClient ==
    /\ seasonResult' =
          [seasonResult EXCEPT !.client =
              Some([label |-> getSeasonalScore(seasonLabel.text, currentMonth),
                    atoms |-> [i \in 1..Len(seasonLabel.atoms) |->
                                  getSeasonalScore(seasonLabel.atoms[i], currentMonth)]])]
    /\ UNCHANGED <<currentMonth, species, location, weather, allSpecies, clientResult,
                   seasonLabel, firstRank, lastRank, analysis, ticks>>
    /\ UNCHANGED <<compatible, foraging, phenology>>
    /\ UNCHANGED syncVars

\* The server scores the label and each of its atoms in the current month.
ScoreSeasonServer ==
    /\ seasonResult' =
          [seasonResult EXCEPT !.server =
              Some([label |-> routes_getSeasonScore(seasonLabel.text, currentMonth),
                    atoms |-> [i \in 1..Len(seasonLabel.atoms) |->
                                  routes_getSeasonScore(seasonLabel.atoms[i], currentMonth)]])]
    /\ UNCHANGED <<currentMonth, species, location, weather, allSpecies, clientResult,
                   seasonLabel, firstRank, lastRank, analysis, ticks>>
    /\ UNCHANGED <<compatible, foraging, phenology>>
    /\ UNCHANGED syncVars

NextSeason == ScoreSeasonClient \/ ScoreSeasonServer

SpecSeason == InitSeason /\ [][NextSeason]_vars

-----------------------------------------------------------------------------
(* Import of a species: SwissFungiFetcher.convertToInternalFormat          *)

\* The seasons, in the order of the tests of determineSeason, that hold one
\* of the months; table gives the months of each season.
RECURSIVE seasonsWith(_, _)
seasonsWith(months, table) ==
    IF Len(table) = 0 THEN <<>>
    ELSE (IF months \cap Head(table)[2] # {} THEN <<Head(table)[1]>> ELSE <<>>)
         \o seasonsWith(months, Tail(table))

\* The label of seasonsWith: 'All Year' for three seasons or more and for
\* none, else the names joined by ', '.
labelOf(seasons) ==
    IF Len(seasons) >= 3 THEN AllYear
    ELSE IF Len(join(seasons, <<Comma, Space>>)) = 0 THEN AllYear
    ELSE join(seasons, <<Comma, Space>>)

\* determineSeason with the fall months named 'Autumn'.
determineSeason_autumn(months) ==
    IF Cardinality(months) = 0 THEN AllYear
    ELSE labelOf(seasonsWith(months, << <<Spring, {3, 4, 5}>>, <<Summer, {6, 7, 8}>>,
                                        <<Cap("autumn"), {9, 10, 11}>>,
                                        <<Winter, {12, 1, 2}>> >>))

\* determineSeason (swiss-fungi-fetcher.ts lines 457-474); phenology.months
\* is read through length and some only, so it is taken as a set.
determineSeason(months) ==
    IF Cardinality(months) = 0 THEN AllYear
    ELSE labelOf(seasonsWith(months, << <<Spring, {3, 4, 5}>>, <<Summer, {6, 7, 8}>>,
                                        <<Fall, {9, 10, 11}>>, <<Winter, {12, 1, 2}>> >>))

\* The largest number of months observed for a species.
MaxMonths == 4

\* extractPhenology: the month numbers 1..12 whose names the page mentions.
MonthSets == {months \in SUBSET (1..12) : Cardinality(months) <= MaxMonths}

InitImport ==
    /\ phenology \in MonthSets
    /\ currentMonth \in 0..11
    /\ species = Species("sp", <<>>, None, None, None, <<None, None>>, None, None)
    /\ location = Location(None, None, None)
    /\ weather = None
    /\ allSpecies = None
    /\ clientResult = None
    /\ seasonLabel = None
    /\ seasonResult = None
    /\ firstRank = None
    /\ lastRank = None
    /\ analysis = None
    /\ ticks = 0
    /\ compatible = None /\ foraging = None
    /\ ServiceStarted

\* convertToInternalFormat derives the species record: its season from the
\* phenology and its elevation range (empty on the page) from the defaults.
\* The record has not been scored yet.
ConvertToInternalFormat ==
    /\ IsNull(seasonLabel)
    /\ seasonLabel' = Some(determineSeason(phenology))
    /\ species' = [species EXCEPT
                      !.season = determineSeason(phenology),
                      !.elevationMin = convertToInternalFormat_elevation(None, None)[1],
                      !.elevationMax = convertToInternalFormat_elevation(None, None)[2]]
    /\ clientResult' = None
    /\ UNCHANGED <<currentMonth, location, weather, allSpecies, seasonResult, firstRank,
                   lastRank, analysis, ticks, compatible, foraging, phenology>>
    /\ UNCHANGED syncVars

NextImport == ConvertToInternalFormat \/ ScoreSpecies

SpecImport == InitImport /\ [][NextImport]_vars

-----------------------------------------------------------------------------
(* Specification of the location probability of client and server          *)

\* Locations, snapshots and months for the location probability: one month
\* of each season.
CompatLocations ==
    {Location(e, f, t) :
        e \in {None, Some(0), Some(800), Some(1500), Some(2500)},
        f \in {None, Some(Cap("mixed")), Some(Low("mixed")), Some(Cap("conifer")),
               Some(Cap("hardwood")), Some(Cap("deciduous"))},
        t \in {None, Some(<<Cap("fichte")>>)}}

CompatWeather ==
    {None} \cup
    {Weather(t, h, s, r) :
        t \in {None, Some(18), Some(11), Some(30)},
        h \in {None, Some(85), Some(40)},
        s \in {None, Some(14), Some(3)},
        r \in {None, Some(2), Some(30)}}

InitCompat ==
    /\ location \in CompatLocations
    /\ weather \in CompatWeather
    /\ currentMonth \in {0, 3, 6, 9}
    /\ species = Species("sp", AllYear, None, None, None, <<None, None>>, None, None)
    /\ allSpecies = None
    /\ clientResult = None
    /\ seasonLabel = None
    /\ seasonResult = None
    /\ firstRank = None
    /\ lastRank = None
    /\ analysis = None
    /\ ticks = 0
    /\ compatible = None /\ foraging = None /\ phenology = {}
    /\ ServiceStarted

\* The client computes its server-compatible probability of the location.
ServerCompatible ==
    /\ compatible' = Some(calculateServerCompatibleProbability(location, weather))
    /\ UNCHANGED <<currentMonth, species, location, weather, allSpecies, clientResult,
                   seasonLabel, seasonResult, firstRank, lastRank, analysis, ticks,
                   foraging, phenology>>
    /\ UNCHANGED syncVars

\* The server computes the probability of the location in the current month.
ForagingProbability ==
    /\ foraging' = Some(calculateForagingProbability(location, weather, currentMonth))
    /\ UNCHANGED <<currentMonth, species, location, weather, allSpecies, clientResult,
                   seasonLabel, seasonResult, firstRank, lastRank, analysis, ticks,
                   compatible, phenology>>
    /\ UNCHANGED syncVars

NextCompat == ServerCompatible \/ ForagingProbability

SpecCompat == InitCompat /\ [][NextCompat]_vars

-----------------------------------------------------------------------------
(* Specification of the sync service                                       *)

\* Requests arrive in the order of their numbers.
Arrives(c) == calls[c].pc = "idle" /\ \A d \in 1..(c - 1) : calls[d].pc # "idle"

InitSync ==
    /\ currentMonth = 0
    /\ species = Species("sp", AllYear, None, None, None, <<None, None>>, None, None)
    /\ location = Location(None, None, None)
    /\ weather = None
    /\ allSpecies = None
    /\ clientResult = None
    /\ seasonLabel = None
    /\ seasonResult = None
    /\ firstRank = None
    /\ lastRank = None
    /\ analysis = None
    /\ ticks = 0
    /\ compatible = None /\ foraging = None /\ phenology = {}
    /\ ServiceStarted

\* POST /api/swiss-fungi/sync arrives: the call is rejected (HTTP 409) when a
\* sync is in progress; otherwise it sets the flag and reads the store.
SyncArrives(c, options) ==
    /\ Arrives(c)
    /\ IF syncAlreadyInProgress(syncInProgress)
       THEN /\ calls' = [calls EXCEPT ![c] =
                            Answered([@ EXCEPT !.kind = "sync",
                                               !.inProgressAtArrival = syncInProgress],
                                     "rejected", 409, NewReport)]
            /\ UNCHANGED <<store, syncInProgress, lastSyncDate, clock>>
       ELSE /\ syncInProgress' = TRUE
            /\ calls' = [calls EXCEPT ![c] = [@ EXCEPT !.kind = "sync", !.pc = "fetching",
                                                   !.options = options,
                                                   !.existing = existingNames(store, ListedNames),
                                                   !.inProgressAtArrival = syncInProgress]]
            /\ UNCHANGED <<store, lastSyncDate, clock>>
    /\ UNCHANGED scoringVars

\* fetchAllSpecies resolves with a list: totalSwissSpecies and toProcess are set.
FetchReturns(c, list) ==
    /\ calls[c].pc = "fetching"
    /\ LET maxSpecies == calls[c].options.maxSpecies
           processLimit == IF TruthyNum(maxSpecies) THEN Val(maxSpecies) ELSE Len(list)
       IN  calls' = [calls EXCEPT ![c] =
                        [@ EXCEPT !.pc = "processing", !.fetched = list,
                                  !.toProcess = slice(list, processLimit), !.index = 1,
                                  !.report = [@ EXCEPT !.totalSwissSpecies = Len(list)]]]
    /\ UNCHANGED <<store, syncInProgress, lastSyncDate, clock>>
    /\ UNCHANGED scoringVars

\* fetchAllSpecies rejects: the error is rethrown (HTTP 500) through finally.
FetchFails(c) ==
    /\ calls[c].pc = "fetching"
    /\ syncInProgress' = syncInProgressAfter("error")
    /\ calls' = [calls EXCEPT ![c] = Answered(@, "failed", 500, NewReport)]
    /\ UNCHANGED <<store, lastSyncDate, clock>>
    /\ UNCHANGED scoringVars

\* One round of the loop over toProcess: processSpecies.
ProcessSpecies(c) ==
    /\ calls[c].pc = "processing"
    /\ calls[c].index <= Len(calls[c].toProcess)
    /\ LET name == calls[c].toProcess[calls[c].index]
           known == toLowerCase(name) \in calls[c].existing
           adds == ~known /\ calls[c].options.addMissing
       IN  /\ store' = IF adds THEN createMushroomSpecies(store, name) ELSE store
           /\ calls' = [calls EXCEPT ![c] =
                           [@ EXCEPT !.index = @ + 1,
                                     !.report = [@ EXCEPT
                                         !.existingSpecies = IF known THEN @ + 1 ELSE @,
                                         !.newSpeciesAdded = IF adds THEN @ + 1 ELSE @]]]
    /\ UNCHANGED <<syncInProgress, lastSyncDate, clock>>
    /\ UNCHANGED scoringVars

\* After the loop: identifyMissingSpecies, lastSyncDate = new Date(), the
\* report is returned (HTTP 200) through finally.
SyncCompletes(c) ==
    /\ calls[c].pc = "processing"
    /\ calls[c].index > Len(calls[c].toProcess)
    /\ lastSyncDate' = Some(clock)
    /\ clock' = clock + 1
    /\ syncInProgress' = syncInProgressAfter("report")
    /\ calls' = [calls EXCEPT ![c] =
                    Answered(@, "done", 200,
                             [@.report EXCEPT !.missingSpecies =
                                 Cardinality({i \in 1..Len(calls[c].fetched) :
                                     toLowerCase(calls[c].fetched[i])
                                         \notin calls[c].existing})])]
    /\ UNCHANGED store
    /\ UNCHANGED scoringVars

\* POST /api/swiss-fungi/add-curated arrives: the call reads the store.
CuratedArrives(c) ==
    /\ Arrives(c)
    /\ calls' = [calls EXCEPT ![c] =
                    [@ EXCEPT !.kind = "curated", !.pc = "adding", !.index = 1,
                              !.existing = existingNames(store, CuratedNames),
                              !.afterCurated = \E d \in Calls :
                                  calls[d].kind = "curated" /\ calls[d].pc = "done"]]
    /\ UNCHANGED <<store, syncInProgress, lastSyncDate, clock>>
    /\ UNCHANGED scoringVars

\* The loop over curatedSpecies up to its next await: the species already
\* among the names are counted, the first one that is not is created; when
\* none is left the report is returned (HTTP 200).
CuratedStep(c) ==
    /\ calls[c].pc = "adding"
    /\ LET next == nextMissing(calls[c].existing, calls[c].index)
           skipped == next - calls[c].index
       IN  IF next <= Len(curatedSpecies)
           THEN /\ store' = createMushroomSpecies(store, curatedSpecies[next])
                /\ calls' = [calls EXCEPT ![c] =
                                [@ EXCEPT !.index = next + 1,
                                          !.report = [@ EXCEPT
                                              !.existingSpecies = @ + skipped,
                                              !.newSpeciesAdded = @ + 1]]]
           ELSE /\ store' = store
                /\ calls' = [calls EXCEPT ![c] =
                                Answered(@, "done", 200,
                                         [@.report EXCEPT
                                             !.existingSpecies = @ + skipped,
                                             !.totalSwissSpecies = Len(curatedSpecies)])]
    /\ UNCHANGED <<syncInProgress, lastSyncDate, clock>>
    /\ UNCHANGED scoringVars

\* A call that has arrived takes its next step.
Continue(c) ==
    \/ \E list \in FetchedLists : FetchReturns(c, list)
    \/ FetchFails(c)
    \/ ProcessSpecies(c)
    \/ SyncCompletes(c)
    \/ CuratedStep(c)

NextSync ==
    \E c \in Calls :
       \/ \E options \in SyncOptions : SyncArrives(c, options)
       \/ CuratedArrives(c)
       \/ Continue(c)

SpecSync == InitSync /\ [][NextSync]_vars

\* The event loop runs a continuation whenever one is ready.
SpecSyncLive == SpecSync /\ WF_vars(\E c \in Calls : Continue(c))

-----------------------------------------------------------------------------
(* Properties of the species scorer (checked under SpecScore)              *)

Scored == ~IsNull(clientResult) /\ ~Val(clientResult).threw

SumOfSubScores(f) ==
    f.temperature + f.humidity + f.soilTemperature + f.recentRainfall
    + f.elevation + f.forestType + f.treeSpecies + f.season

\* C1: every sub-score returned by calculateSpeciesProbability lies between 0
\* and the maximum of its factor (25, 20, 15, 15, 10, 10, 15, 10), and the
\* total is the sum of the eight sub-scores clamped to [0,100].
C1_SubScoresBounded ==
    Scored =>
        LET r == Val(clientResult)
            f == r.factors
        IN  /\ f.temperature \in 0..25
            /\ f.humidity \in 0..20
            /\ f.soilTemperature \in 0..15
            /\ f.recentRainfall \in 0..15
            /\ f.elevation \in 0..10
            /\ f.forestType \in 0..10
            /\ f.treeSpecies \in 0..15
            /\ f.season \in 0..10
            /\ f.totalScore = Max2(0, Min2(SumOfSubScores(f), 100))
            /\ r.probability = f.totalScore

\* A result whose eight sub-scores add up to more than 100 and is clamped.
C1_Witness ==
    /\ Scored
    /\ SumOfSubScores(Val(clientResult).factors) > 100
    /\ Val(clientResult).probability = 100

\* C2: calculateSpeciesProbability and calculateLocationProbability return a
\* value and never raise, whatever is absent in the weather, the species and
\* the location, and whatever the tree and forest strings are.
C2_ScoringIsTotal ==
    /\ ~IsNull(clientResult) => ~Val(clientResult).threw
    /\ ~IsNull(lastRank) => ~Val(lastRank).result.threw

\* Both scorers have returned for a species with tree associations at a
\* location without weather, without a tree list and with an empty forest
\* string.
C2_Witness ==
    /\ IsNull(weather)
    /\ IsNull(location.treeSpecies)
    /\ location.forestType = Some(<<>>)
    /\ TruthyArr(species.treeAssociations) /\ Len(Val(species.treeAssociations)) > 0
    /\ IsNull(species.forestTypes)
    /\ ~IsNull(clientResult) /\ ~Val(clientResult).threw
    /\ ~IsNull(lastRank) /\ ~Val(lastRank).result.threw

NoOptionalData ==
    /\ IsNull(weather)
    /\ IsNull(species.optimalTemp) /\ IsNull(species.optimalHumidity)
    /\ IsNull(species.soilTempMin)
    /\ IsNull(species.elevationMin) /\ IsNull(species.elevationMax)
    /\ IsNull(species.treeAssociations) /\ IsNull(species.forestTypes)
    /\ IsNull(location.elevation) /\ IsNull(location.forestType)
    /\ IsNull(location.treeSpecies)

\* C3: without weather and without any optional field of the species and of
\* the location, the sub-scores are the no-data defaults: temperature 15,
\* humidity 12, soil temperature 8, recent rainfall 8, elevation 6, forest
\* type 5, tree species 8.
C3_NoDataDefaults ==
    (NoOptionalData /\ Scored) =>
        LET f == Val(clientResult).factors
        IN  /\ f.temperature = 15
            /\ f.humidity = 12
            /\ f.soilTemperature = 8
            /\ f.recentRainfall = 8
            /\ f.elevation = 6
            /\ f.forestType = 5
            /\ f.treeSpecies = 8

\* The species has been scored with nothing but its season known.
C3_Witness == NoOptionalData /\ Scored

\* C5: for the same species, location, weather and month, the probability of
\* the species in the server's probability analysis equals the probability
\* returned by the client's calculateSpeciesProbability.
C5_ClientServerAgree ==
    (Scored /\ ~IsNull(analysis)) =>
        Val(analysis).speciesAnalysis[1].probability = Val(clientResult).probability

-----------------------------------------------------------------------------
(* Properties of the location ranking (checked under SpecRank)             *)

\* The probability of a species of the catalog at the time of a call.
ProbabilityAt(call, sp) ==
    calculateSpeciesProbability(sp, call.args.location, call.args.weather,
                                call.month).probability

Range(seq) == {seq[i] : i \in 1..Len(seq)}

\* The position of a species in the catalog of a call.
CatalogIndex(call, sp) ==
    CHOOSE k \in 1..Len(Val(call.args.allSpecies)) : Val(call.args.allSpecies)[k] = sp

SpeciesNamed(call, name) ==
    CHOOSE sp \in Range(Val(call.args.allSpecies)) : sp.name = name

\* The probabilities of the species of a list at the time of a call.
ProbabilitiesAt(call, list) == [n \in 1..Len(list) |-> ProbabilityAt(call, list[n])]

\* In a list of species, equals in probability keep their catalog order.
TiesInCatalogOrder(call, list) ==
    LET p == ProbabilitiesAt(call, list)
        at == [n \in 1..Len(list) |-> CatalogIndex(call, list[n])]
    IN  \A i, j \in 1..Len(list) : (i < j /\ p[i] = p[j]) => at[i] < at[j]

Ranked(call) == ~catalogIsEmpty(call.args.allSpecies) /\ ~call.result.threw

EmptyRanking ==
    [threw |-> FALSE, probability |-> 0, suitableSpecies |-> <<>>, topSpecies |-> <<>>]

\* C6: for an empty or missing catalog calculateLocationProbability returns
\* probability 0 and two empty lists, for every location and weather, and
\* does not raise.
C6_EmptyCatalog ==
    (~IsNull(lastRank)
        /\ (IsNull(Val(lastRank).args.allSpecies)
            \/ Val(lastRank).args.allSpecies = Some(<<>>)))
        => Val(lastRank).result = EmptyRanking

\* A missing catalog has been ranked at a location with weather.
C6_Witness ==
    /\ ~IsNull(lastRank)
    /\ IsNull(Val(lastRank).args.allSpecies)
    /\ ~IsNull(Val(lastRank).args.weather)
    /\ Val(lastRank).result = EmptyRanking

\* Of the probabilities p, the three highest are those at positions i, j, k.
TopThreeAt(p, i, j, k) ==
    /\ i # j /\ j # k /\ i # k
    /\ p[i] >= p[j] /\ p[j] >= p[k]
    /\ \A n \in (1..Len(p)) \ {i, j, k} : p[n] <= p[k]

\* round(0.4 * s1 + 0.35 * s2 + 0.25 * s3), a half rounded up, in hundredths.
RoundedAverage(s1, s2, s3) == (40 * s1 + 35 * s2 + 25 * s3 + 50) \div 100

\* C7: for a catalog of at least three species the overall probability is
\* round(0.4*s1 + 0.35*s2 + 0.25*s3) clamped to [0,100], s1 >= s2 >= s3 being
\* the three highest probabilities; the three weights sum to 1.0.
C7_WeightedTopThree ==
    /\ weight(0) + weight(1) + weight(2) = 100
    /\ (~IsNull(lastRank) /\ Ranked(Val(lastRank))
           /\ Len(Val(Val(lastRank).args.allSpecies)) >= 3)
           => LET call == Val(lastRank)
                  p == ProbabilitiesAt(call, Val(call.args.allSpecies))
              IN  \E i, j, k \in 1..Len(p) :
                     /\ TopThreeAt(p, i, j, k)
                     /\ call.result.probability =
                           Max2(0, Min2(100, RoundedAverage(p[i], p[j], p[k])))

\* A catalog of all six species whose three highest probabilities differ.
C7_Witness ==
    /\ ~IsNull(lastRank) /\ Ranked(Val(lastRank))
    /\ Len(Val(Val(lastRank).args.allSpecies)) = 6
    /\ LET p == ProbabilitiesAt(Val(lastRank), Val(Val(lastRank).args.allSpecies))
       IN  \E i, j, k \in 1..6 : TopThreeAt(p, i, j, k) /\ p[i] > p[k]

\* C8 in the response of the server's endpoint (checked under SpecScore):
\* suitableSpecies holds the name of a species if and only if the probability
\* of that species in speciesAnalysis is at least 35.
C8_ServerSuitableIffAtLeast35 ==
    ~IsNull(analysis) =>
        LET response == Val(analysis)
        IN  \A n \in 1..Len(response.speciesAnalysis) :
               (response.speciesAnalysis[n].name \in Range(response.suitableSpecies))
                   <=> (response.speciesAnalysis[n].probability >= 35)

\* C8 in the result of the client's calculateLocationProbability (checked
\* under SpecRank): suitableSpecies holds the name of a catalog species if and
\* only if the probability of that species is at least 35, with one entry for
\* each.
C8_ClientSuitableIffAtLeast35 ==
    (~IsNull(lastRank) /\ Ranked(Val(lastRank))) =>
        LET call == Val(lastRank)
            all == Val(call.args.allSpecies)
            p == ProbabilitiesAt(call, all)
            names == call.result.suitableSpecies
        IN  /\ \A n \in 1..Len(all) : (all[n].name \in Range(names)) <=> (p[n] >= 35)
            /\ Range(names) \subseteq {all[n].name : n \in 1..Len(all)}
            /\ Len(names) = Cardinality({n \in 1..Len(all) : p[n] >= 35})

\* One species scores exactly 35 and is listed, another scores less and is not.
C8_ClientWitness ==
    /\ ~IsNull(lastRank) /\ Ranked(Val(lastRank))
    /\ \E sp, other \in Range(Val(Val(lastRank).args.allSpecies)) :
          /\ ProbabilityAt(Val(lastRank), sp) = 35
          /\ sp.name \in Range(Val(lastRank).result.suitableSpecies)
          /\ ProbabilityAt(Val(lastRank), other) < 35
          /\ other.name \notin Range(Val(lastRank).result.suitableSpecies)

\* C9: topSpecies has min(5, catalog size) entries in order of non-increasing
\* probability, and no species left out has a strictly higher probability
\* than a species in it.
C9_TopFive ==
    (~IsNull(lastRank) /\ Ranked(Val(lastRank))) =>
        LET call == Val(lastRank)
            all == Val(call.args.allSpecies)
            top == call.result.topSpecies
            p == ProbabilitiesAt(call, all)
            q == ProbabilitiesAt(call, top)
        IN  /\ Len(top) = Min2(5, Len(all))
            /\ Range(top) \subseteq Range(all)
            /\ \A i, j \in 1..Len(top) : i # j => top[i] # top[j]
            /\ \A i \in 1..(Len(top) - 1) : q[i] >= q[i + 1]
            /\ \A n \in 1..Len(all) : \A m \in 1..Len(top) :
                  all[n] \notin Range(top) => p[n] <= q[m]

\* Six species are ranked, five are listed, and the one left out scores
\* strictly less than the last one listed.
C9_Witness ==
    /\ ~IsNull(lastRank) /\ Ranked(Val(lastRank))
    /\ Len(Val(Val(lastRank).args.allSpecies)) = 6
    /\ Len(Val(lastRank).result.topSpecies) = 5
    /\ \E out \in Range(Val(Val(lastRank).args.allSpecies))
                    \ Range(Val(lastRank).result.topSpecies) :
          ProbabilityAt(Val(lastRank), out)
              < ProbabilityAt(Val(lastRank), Val(lastRank).result.topSpecies[5])

TopPositions(p) ==
    {i \in 1..Len(p) : Cardinality({j \in 1..Len(p) : p[j] > p[i]}) < 3}

\* C30: for every non-empty catalog, of one or two species included, the
\* overall probability is not below the lowest and not above the highest of
\* the up to three highest species probabilities; with a single species it
\* is the probability of that species.
C30_AverageWithinTopScores ==
    (~IsNull(lastRank) /\ Ranked(Val(lastRank))) =>
        LET call == Val(lastRank)
            p == ProbabilitiesAt(call, Val(call.args.allSpecies))
        IN  /\ \E i \in TopPositions(p) : p[i] <= call.result.probability
            /\ \E i \in TopPositions(p) : call.result.probability <= p[i]
            /\ Len(p) = 1 => call.result.probability = p[1]

-----------------------------------------------------------------------------
(* Properties of the seasonal timing model (checked under SpecSeason)      *)

RECURSIVE MaxOf(_)
MaxOf(scores) ==
    IF Len(scores) = 1 THEN scores[1] ELSE Max2(scores[1], MaxOf(Tail(scores)))

\* The label is made of the four season names only.
NamedSeasonsOnly == Range(seasonLabel.atoms) \subseteq SeasonNames

\* C10: the seasonal score of a comma-separated label of season names is, in
\* every month, the maximum of the scores of its atoms in that month, in the
\* client and in the server.
C10_CompoundIsMaxOfAtoms ==
    NamedSeasonsOnly =>
        /\ ~IsNull(seasonResult.client) =>
              Val(seasonResult.client).label = MaxOf(Val(seasonResult.client).atoms)
        /\ ~IsNull(seasonResult.server) =>
              Val(seasonResult.server).label = MaxOf(Val(seasonResult.server).atoms)

\* "Summer, Fall" scored in September: Summer is adjacent, Fall in season.
C10_Witness ==
    /\ seasonLabel.atoms = <<Summer, Fall>>
    /\ seasonLabel.text = Summer \o <<Comma, Space>> \o Fall
    /\ currentMonth = 8
    /\ seasonResult.client = Some([label |-> 10, atoms |-> <<6, 10>>])
    /\ ~IsNull(seasonResult.server)

\* C11: the Winter score in December, January and February (getMonth() 11, 0
\* and 1) is the in-season score, the same in the three months: 10 in the
\* client, 15 in the server.
C11_WinterWrapsYearEnd ==
    (seasonLabel.text = Winter /\ currentMonth \in {11, 0, 1}) =>
        /\ ~IsNull(seasonResult.client) => Val(seasonResult.client).label = 10
        /\ ~IsNull(seasonResult.server) => Val(seasonResult.server).label = 15

\* Winter has been scored in December by the client and by the server.
C11_Witness ==
    /\ seasonLabel.text = Winter
    /\ currentMonth = 11
    /\ ~IsNull(seasonResult.client) /\ Val(seasonResult.client).label = 10
    /\ ~IsNull(seasonResult.server) /\ Val(seasonResult.server).label = 15

\* The calendar month (1 to 12) in which a season starts.
FirstMonthOf(season) ==
    CASE season = Spring -> 3
      [] season = Summer -> 6
      [] season = Fall   -> 9
      [] season = Winter -> 12

\* The number of months from the start of the season to the current month.
MonthsInto(season) == ((currentMonth + 1) - FirstMonthOf(season)) % 12

\* The tier of a season in the current month: 10 in its three months, 6 in
\* the month before and in the month after, 2 in the other seven.
TierOf(season) ==
    IF MonthsInto(season) \in {0, 1, 2} THEN 10
    ELSE IF MonthsInto(season) \in {11, 3} THEN 6
    ELSE 2

\* C12: the client scores "All Year" 10 in every month, and each of Spring
\* (Mar-May), Summer (Jun-Aug), Fall (Sep-Nov) and Winter (Dec-Feb) 10 in its
\* three months, 6 in the month before and in the month after, 2 otherwise.
C12_SeasonTiers ==
    ~IsNull(seasonResult.client) =>
        /\ seasonLabel.text = AllYear => Val(seasonResult.client).label = 10
        /\ seasonLabel.text \in SeasonNames =>
              Val(seasonResult.client).label = TierOf(seasonLabel.text)

\* Summer has been scored in September, the month after its range.
C12_Witness ==
    /\ seasonLabel.text = Summer
    /\ currentMonth = 8
    /\ ~IsNull(seasonResult.client) /\ Val(seasonResult.client).label = 6

\* No atom of the label is one of the four season names or "All Year".
UnknownLabel ==
    /\ seasonLabel.text # AllYear
    /\ \A i \in 1..Len(seasonLabel.atoms) :
          seasonLabel.atoms[i] \notin SeasonNames \cup {AllYear}

\* C13: a label that matches no season name (a typo, another letter case, the
\* empty text, a compound of such atoms) is scored 2 by the client in every
\* month.
C13_UnknownLabelLowestTier ==
    (UnknownLabel /\ ~IsNull(seasonResult.client)) =>
        Val(seasonResult.client).label = 2

\* "fall, autumn" has been scored in October, when Fall is in season.
C13_Witness ==
    /\ seasonLabel.atoms = <<Low("fall"), Cap("autumn")>>
    /\ currentMonth = 9
    /\ ~IsNull(seasonResult.client) /\ Val(seasonResult.client).label = 2

-----------------------------------------------------------------------------
(* Properties of the factor scorers (checked under SpecScore)              *)

\* The largest temperature and humidity an observation is compared with.
MaxTemperature == 40

MaxHumidity == 100

\* The snapshot with another temperature or humidity observed.
WithTemperature(w, t) == Some([Val(w) EXCEPT !.temperature = Some(t)])

WithHumidity(w, h) == Some([Val(w) EXCEPT !.humidity = Some(h)])

\* The species has an optimal temperature and the snapshot a temperature.
TemperatureKnown ==
    /\ ~IsNull(species.optimalTemp)
    /\ ~IsNull(weather) /\ ~IsNull(Val(weather).temperature)

HumidityKnown ==
    /\ ~IsNull(species.optimalHumidity)
    /\ ~IsNull(weather) /\ ~IsNull(Val(weather).humidity)

\* C14: for a species with a known optimum, an observed temperature (0
\* included) that is at least as far from the optimum as the one scored never
\* gets a higher temperature sub-score, and likewise for the humidity.
C14_FartherNeverScoresHigher ==
    Scored =>
        /\ TemperatureKnown =>
              \A t \in 0..MaxTemperature :
                 Abs(t - Val(species.optimalTemp))
                     >= Abs(Val(Val(weather).temperature) - Val(species.optimalTemp))
                 => temperatureFactor(species, WithTemperature(weather, t))
                        <= Val(clientResult).factors.temperature
        /\ HumidityKnown =>
              \A h \in 0..MaxHumidity :
                 Abs(h - Val(species.optimalHumidity))
                     >= Abs(Val(Val(weather).humidity) - Val(species.optimalHumidity))
                 => humidityFactor(species, WithHumidity(weather, h))
                        <= Val(clientResult).factors.humidity

\* The tier of a distance between the observed and the optimal temperature.
TemperatureTier(diff) ==
    IF diff <= 2 THEN 25
    ELSE IF diff <= 5 THEN 20
    ELSE IF diff <= 8 THEN 15
    ELSE IF diff <= 12 THEN 10
    ELSE 5

\* C16: whenever the species has an optimal temperature and the snapshot a
\* temperature (0 degrees included, for either), the temperature sub-score is
\* 25, 20, 15, 10 or 5 for a distance of at most 2, 5, 8, 12 or more; the
\* default 15 is used only when the snapshot has no temperature.
C16_TemperatureTiers ==
    (Scored /\ TemperatureKnown) =>
        Val(clientResult).factors.temperature
            = TemperatureTier(Abs(Val(Val(weather).temperature) - Val(species.optimalTemp)))

\* The snapshot with another number of days since the last rain.
WithRainfall(w, days) == Some([Val(w) EXCEPT !.lastRainfall = Some(days)])

RainfallTier(days) ==
    IF days <= 2 THEN 15
    ELSE IF days <= 4 THEN 12
    ELSE IF days <= 7 THEN 10
    ELSE IF days <= 14 THEN 6
    ELSE IF days <= 21 THEN 3
    ELSE 1

\* C15: when the snapshot has the days since the last rain (0 included), the
\* rainfall sub-score is 15, 12, 10, 6, 3 for at most 2, 4, 7, 14, 21 days
\* and 1 beyond; more days never score higher, and score strictly lower
\* across each of the thresholds.
C15_RainfallTiers ==
    (Scored /\ ~IsNull(weather) /\ ~IsNull(Val(weather).lastRainfall)) =>
        LET days == Val(Val(weather).lastRainfall)
            score == Val(clientResult).factors.recentRainfall
        IN  /\ score = RainfallTier(days)
            /\ \A later \in days..MaxRainDays :
                   /\ recentRainfallFactor(WithRainfall(weather, later)) <= score
                   /\ (\E threshold \in {2, 4, 7, 14, 21} :
                          days <= threshold /\ threshold < later)
                      => recentRainfallFactor(WithRainfall(weather, later)) < score

\* A snapshot taken on a day of rain (0 days since the last rain) is scored 15.
C15_Witness ==
    /\ Scored /\ ~IsNull(weather)
    /\ Val(weather).lastRainfall = Some(0)
    /\ Val(clientResult).factors.recentRainfall = 15

\* The elevation tier: 10 inside the range, then lower with the distance
\* to the nearer bound.
ElevationTier(e, lo, hi) ==
    IF lo <= e /\ e <= hi THEN 10
    ELSE LET distance == Min2(Abs(e - lo), Abs(e - hi))
         IN  IF distance <= 50 THEN 9
             ELSE IF distance <= 100 THEN 8
             ELSE IF distance <= 200 THEN 6
             ELSE IF distance <= 400 THEN 4
             ELSE IF distance <= 600 THEN 2
             ELSE 1

\* C17: whenever the location has an elevation and the species an elevation
\* range (a lower bound of 0 and an elevation of 0 included), the elevation
\* sub-score is 10 inside the range and 9, 8, 6, 4, 2, 1 outside it for a
\* distance to the nearer bound of at most 50, 100, 200, 400, 600 or more.
C17_ElevationTiers ==
    (Scored /\ ~IsNull(location.elevation)
        /\ ~IsNull(species.elevationMin) /\ ~IsNull(species.elevationMax)) =>
        Val(clientResult).factors.elevation
            = ElevationTier(Val(location.elevation), Val(species.elevationMin),
                            Val(species.elevationMax))

\* A nullable list that is absent or has no element.
AbsentOrEmpty(list) == IsNull(list) \/ Len(Val(list)) = 0

\* C18: whenever the tree list of the location or the tree associations of
\* the species are absent or empty, the tree sub-score is the default 8; the
\* score 3 arises only when both lists have elements and fewer than one in
\* ten trees of the location match.
C18_NeutralDefaultWithoutTrees ==
    Scored =>
        LET score == Val(clientResult).factors.treeSpecies
        IN  /\ (AbsentOrEmpty(location.treeSpecies)
                   \/ AbsentOrEmpty(species.treeAssociations)) => score = 8
            /\ score = 3 =>
                  /\ ~AbsentOrEmpty(location.treeSpecies)
                  /\ ~AbsentOrEmpty(species.treeAssociations)
                  /\ 10 * matchingTrees(Val(location.treeSpecies),
                                        Val(species.treeAssociations))
                         < Len(Val(location.treeSpecies))

\* The number of trees of the location that match at least one association.
TreesWithAMatch(trees, assocs) ==
    Cardinality({i \in 1..Len(trees) :
                    \E j \in 1..Len(assocs) : treeMatches(trees[i], assocs[j])})

\* The tier of matching trees out of n: the ratio matching / n against 0.7,
\* 0.5, 0.3 and 0.1, compared in tenths.
TreeRatioTier(matching, n) ==
    IF 10 * matching >= 7 * n THEN 15
    ELSE IF 10 * matching >= 5 * n THEN 12
    ELSE IF 10 * matching >= 3 * n THEN 10
    ELSE IF 10 * matching >= n THEN 6
    ELSE 3

\* C19: with both tree lists non-empty the tree sub-score is the tier of the
\* ratio of the location's trees that match at least one association to all
\* trees of the location: 15, 12, 10, 6 from 0.7, 0.5, 0.3, 0.1, else 3; a
\* tree counts once however many associations it matches.
C19_TreeRatioTiers ==
    (Scored /\ ~AbsentOrEmpty(location.treeSpecies)
        /\ ~AbsentOrEmpty(species.treeAssociations)) =>
        Val(clientResult).factors.treeSpecies
            = TreeRatioTier(TreesWithAMatch(Val(location.treeSpecies),
                                            Val(species.treeAssociations)),
                            Len(Val(location.treeSpecies)))

\* Seven of ten trees match, each of them both associations: scored 15.
C19_Witness ==
    /\ Scored
    /\ ~AbsentOrEmpty(location.treeSpecies) /\ Len(Val(location.treeSpecies)) = 10
    /\ ~AbsentOrEmpty(species.treeAssociations) /\ Len(Val(species.treeAssociations)) = 2
    /\ TreesWithAMatch(Val(location.treeSpecies), Val(species.treeAssociations)) = 7
    /\ Val(clientResult).factors.treeSpecies = 15

\* The habitat matcher reports that the location's forest type matches an
\* entry of the species' forest types.
ForestMatch ==
    \E i \in 1..Len(Val(species.forestTypes)) :
       forestMatches(location.forestType, Val(species.forestTypes)[i])

\* C20 as stated: the forest sub-score is 10 on a match, 3 when the location
\* forest type and the species' forest types are both present and none
\* matches, and 5 whenever the location forest type is absent or the species'
\* forest types are absent or empty.
C20_ForestThreeValues ==
    Scored =>
        LET score == Val(clientResult).factors.forestType
        IN  IF IsNull(location.forestType) \/ AbsentOrEmpty(species.forestTypes)
            THEN score = 5
            ELSE score = (IF ForestMatch THEN 10 ELSE 3)

\* The location has a forest type (a text that is not empty).
ForestTypeGiven == ~IsNull(location.forestType) /\ Len(Val(location.forestType)) > 0

\* C20 as amended: 10 on a match and 3 on none when the location forest type
\* and the species' forest types are both given; when only the location
\* forest type is given, 8 if it names a mixed forest, 6 if it names a
\* conifer or hardwood forest, else 4; 5 when the location forest type is
\* absent or empty.
C20_ForestTypeValues ==
    Scored =>
        LET score == Val(clientResult).factors.forestType
        IN  IF ~ForestTypeGiven THEN score = 5
            ELSE IF ~AbsentOrEmpty(species.forestTypes)
            THEN score = (IF ForestMatch THEN 10 ELSE 3)
            ELSE LET type == toLowerCase(Val(location.forestType))
                 IN  score = (IF includes(type, Low("mixed")) THEN 8
                              ELSE IF includes(type, Low("conifer"))
                                      \/ includes(type, Low("hardwood")) THEN 6
                              ELSE 4)

\* A mixed forest has been scored 8 for a species with an empty forest-type set.
C20_Witness ==
    /\ Scored
    /\ location.forestType = Some(Cap("mixed"))
    /\ species.forestTypes = Some(<<>>)
    /\ Val(clientResult).factors.forestType = 8

-----------------------------------------------------------------------------
(* Properties of the habitat matchers                                      *)

\* The forest-type text a names family and b names the same family or its
\* counterpart: mixed with mixed, conifer with conifer or softwood, hardwood
\* with hardwood or deciduous.
FamilyPaired(a, b) ==
    \/ includes(a, Low("mixed")) /\ includes(b, Low("mixed"))
    \/ includes(a, Low("conifer")) /\ (includes(b, Low("conifer")) \/ includes(b, Low("softwood")))
    \/ includes(a, Low("hardwood")) /\ (includes(b, Low("hardwood")) \/ includes(b, Low("deciduous")))

\* Two forest-type texts match: equal ignoring case, or paired in either
\* direction.
TwoWayForestMatch(a, b) ==
    \/ toLowerCase(a) = toLowerCase(b)
    \/ FamilyPaired(toLowerCase(a), toLowerCase(b))
    \/ FamilyPaired(toLowerCase(b), toLowerCase(a))

\* The species and the location with the forest-type entry of the one and the
\* forest type of the other exchanged.
SwappedSpecies == [species EXCEPT !.forestTypes = Some(<<Val(location.forestType)>>)]

SwappedLocation == [location EXCEPT !.forestType = Some(Val(species.forestTypes)[1])]

\* The species names exactly one forest type and the location has one.
OneForestTypeEach ==
    /\ ForestTypeGiven
    /\ ~IsNull(species.forestTypes) /\ Len(Val(species.forestTypes)) = 1
    /\ Len(Val(species.forestTypes)[1]) > 0

\* C21: a location forest type and a species forest type match (sub-score 10,
\* else 3) exactly when they are equal ignoring case or paired by family in
\* either direction, and exchanging the two texts gives the same sub-score.
C21_ForestMatchTwoWay ==
    (Scored /\ OneForestTypeEach) =>
        LET score == Val(clientResult).factors.forestType
        IN  /\ score = (IF TwoWayForestMatch(Val(location.forestType),
                                             Val(species.forestTypes)[1])
                        THEN 10 ELSE 3)
            /\ score = forestTypeFactor(SwappedSpecies, SwappedLocation)

\* The association is the English common name of one of the six trees and the
\* tree of the location is that tree under its English or its German name, in
\* any letter case.
SameTree(tree, assoc) ==
    \E n \in TreeNames :
       /\ toLowerCase(assoc) = Low(n[1])
       /\ toLowerCase(tree) \in {Low(n[1]), Low(n[2])}

\* The tree of the location is named by the association: the same tree, or
\* one text equal to, containing or contained in the other.
NamedBy(tree, assoc) ==
    \/ SameTree(tree, assoc)
    \/ toLowerCase(tree) = toLowerCase(assoc)
    \/ includes(toLowerCase(tree), toLowerCase(assoc))
    \/ includes(toLowerCase(assoc), toLowerCase(tree))

\* The number of trees of the location named by at least one association.
TreesNamed(trees, assocs) ==
    Cardinality({i \in 1..Len(trees) : \E j \in 1..Len(assocs) : NamedBy(trees[i], assocs[j])})

\* C22: every tree of the location that an association names (the same tree
\* under its German or English name in any letter case, or a text equal to,
\* containing or contained in the association) counts as a matching tree, so
\* the tree sub-score is at least the tier of the ratio of the named trees.
C22_SynonymsMatch ==
    (Scored /\ ~AbsentOrEmpty(location.treeSpecies)
        /\ ~AbsentOrEmpty(species.treeAssociations)) =>
        /\ TreesNamed(Val(location.treeSpecies), Val(species.treeAssociations))
              <= matchingTrees(Val(location.treeSpecies), Val(species.treeAssociations))
        /\ Val(clientResult).factors.treeSpecies
              >= TreeRatioTier(TreesNamed(Val(location.treeSpecies),
                                          Val(species.treeAssociations)),
                               Len(Val(location.treeSpecies)))

\* A location whose only tree is "Birke" has been scored 15 for a species
\* associated with "birch".
C22_Witness ==
    /\ Scored
    /\ location.treeSpecies = Some(<<Cap("birke")>>)
    /\ species.treeAssociations = Some(<<Low("birch")>>)
    /\ Val(clientResult).factors.treeSpecies = 15

-----------------------------------------------------------------------------
(* Properties of the location probability (checked under SpecCompat)       *)

\* C23: for the same location and weather snapshot, the client's
\* calculateServerCompatibleProbability returns the value the server's
\* calculateForagingProbability returns in the same month.
C23_ServerCompatibleAgrees ==
    (~IsNull(compatible) /\ ~IsNull(foraging)) => Val(compatible) = Val(foraging)

-----------------------------------------------------------------------------
(* Properties of the sync service (checked under SpecSync, SpecSyncLive)   *)

\* C25: the store never holds two species whose scientific names are equal
\* ignoring case, whatever the interleaving of sync and add-curated calls.
C25_ScientificNameUnique ==
    \A a, b \in AllNames :
       toLowerCase(a) = toLowerCase(b) =>
          IF a = b THEN store[a] <= 1 ELSE store[a] = 0 \/ store[b] = 0

\* The body of syncWithSwissFungi is running for the call.
InSyncBody(call) == call.kind = "sync" /\ call.pc \in {"fetching", "processing"}

\* A sync request arrives as call c in this step.
SyncArrival(c) == calls[c].pc = "idle" /\ calls'[c].kind = "sync"

\* C26: at most one body of syncWithSwissFungi runs at a time; a sync call
\* that arrives while syncInProgress is true is answered 409 without a fetch,
\* a report or a write to the store, and leaves syncInProgress true and
\* lastSyncDate as it was.
C26_OneSyncAtATime ==
    /\ [](/\ Cardinality({c \in Calls : InSyncBody(calls[c])}) <= 1
          /\ \A c \in Calls :
                calls[c].pc = "rejected" =>
                   /\ calls[c].status = 409
                   /\ calls[c].inProgressAtArrival
                   /\ calls[c].report = NewReport
                   /\ calls[c].fetched = <<>>)
    /\ [][\A c \in Calls :
             (SyncArrival(c) /\ syncInProgress) =>
                /\ calls'[c].pc = "rejected"
                /\ store' = store
                /\ syncInProgress'
                /\ lastSyncDate' = lastSyncDate]_vars

\* A sync call has been rejected while the body of another is running.
C26_Witness ==
    \E c, d \in Calls :
       /\ calls[c].pc = "rejected" /\ calls[c].status = 409
       /\ InSyncBody(calls[d])
       /\ syncInProgress

\* C27: every accepted sync call eventually clears syncInProgress, after a
\* report and after a failure alike; getSyncStatus reports a sync in progress
\* exactly while a body runs; a sync call that arrives when none is in
\* progress is accepted; and lastSyncDate changes only in the step in which a
\* sync returns its report.
C27_FlagAlwaysCleared ==
    /\ syncInProgress ~> ~getSyncStatus.inProgress
    /\ [](getSyncStatus.inProgress <=> \E c \in Calls : InSyncBody(calls[c]))
    /\ [][/\ \A c \in Calls :
                (SyncArrival(c) /\ ~syncInProgress) => InSyncBody(calls'[c])
          /\ lastSyncDate' # lastSyncDate =>
                \E c \in Calls :
                   /\ InSyncBody(calls[c])
                   /\ calls'[c].pc = "done" /\ calls'[c].status = 200]_vars

\* A sync has failed, and a later sync call has been accepted and has
\* returned its report: no sync is in progress and lastSyncDate is set.
C27_Witness ==
    \E c, d \in Calls :
       /\ c < d
       /\ calls[c].kind = "sync" /\ calls[c].pc = "failed"
       /\ calls[d].kind = "sync" /\ calls[d].pc = "done"
       /\ ~getSyncStatus.inProgress
       /\ ~IsNull(getSyncStatus.lastSyncDate)

\* C28: in every report of addCuratedSwissSpecies the new, the existing and
\* the failed species add up to totalSwissSpecies, which is 10; a call made
\* after another add-curated call has completed adds nothing and reports 0
\* new and 10 existing species.
C28_CuratedIdempotent ==
    \A c \in Calls :
       (calls[c].kind = "curated" /\ calls[c].pc = "done") =>
          LET report == calls[c].report
          IN  /\ report.totalSwissSpecies = 10
              /\ report.newSpeciesAdded + report.existingSpecies + report.errors
                    = report.totalSwissSpecies
              /\ calls[c].afterCurated =>
                    /\ report.newSpeciesAdded = 0
                    /\ report.existingSpecies = 10

\* An add-curated call made after another one had completed has returned.
C28_Witness ==
    \E c \in Calls :
       /\ calls[c].kind = "curated" /\ calls[c].pc = "done" /\ calls[c].afterCurated
       /\ calls[c].report.newSpeciesAdded = 0
       /\ calls[c].report.existingSpecies = 10
       /\ \A n \in CuratedNames : store[n] = 1

-----------------------------------------------------------------------------
(* Properties of the species import (checked under SpecImport)             *)

\* C29: the season label derived from the observed months is understood by
\* the seasonal model.  In each observed month (month m of 1..12 is
\* getMonth() = m - 1) the seasonal score of the imported species is the
\* in-season tier 10, and a species with no observed month is labelled
\* "All Year".
C29_DerivedLabelInSeason ==
    ~IsNull(seasonLabel) =>
        /\ species.season = Val(seasonLabel)
        /\ phenology = {} => species.season = AllYear
        /\ (Scored /\ (currentMonth + 1) \in phenology) =>
              Val(clientResult).factors.season = 10

\* A species observed in November and December is labelled "Fall, Winter"
\* and has been scored 10 in December.
C29_Witness ==
    /\ phenology = {11, 12}
    /\ currentMonth = 11
    /\ seasonLabel = Some(Fall \o <<Comma, Space>> \o Winter)
    /\ Scored
    /\ Val(clientResult).factors.season = 10

====
